---- MODULE Spec2Model ----
(***************************************************************************)
(* Reconciliation engine of bolt-api: the handlers of                      *)
(* src/routes/reconciliation.js over the tables reached through            *)
(* Database (src/unnamed/part_002).                                        *)
(*                                                                         *)
(* Every handler is an async function: it runs without interleaving        *)
(* between two awaits, and every await is one statement executed by the    *)
(* store.  One action of the model is therefore one store call of a        *)
(* request together with the synchronous code that follows it up to the    *)
(* next await.  Requests interleave at their awaits.                       *)
(*                                                                         *)
(* Numbers.  Money is counted in cents, hours in hundredths of an hour,    *)
(* rates in units of 1/RateDen.  A computed value is an exact fraction     *)
(* <<n, d>> (n/d cents or hours); SQL NULL / JS undefined is <<>> and a    *)
(* present scalar x is <<x>>.                                              *)
(***************************************************************************)
EXTENDS Integers, Sequences, FiniteSets, TLC

VARIABLES
    payroll_periods,      \* table payroll_periods: sequence of rows
    employees,            \* table employees
    payroll_entries,      \* table payroll_entries, in insertion order
    time_entries,         \* table time_entries
    system_settings,      \* table system_settings
    reconciliation_logs,  \* table reconciliation_logs; row k has id k
    audit_logs,           \* table audit_logs
    now,                  \* the store's clock, NOW()
    req,                  \* the requests: position, arguments, locals, response
    createdBy             \* history: createdBy[k] = request that inserted log k (0: earlier)

vars == <<payroll_periods, employees, payroll_entries, time_entries,
          system_settings, reconciliation_logs, audit_logs, now, req, createdBy>>

inputs == <<payroll_periods, employees, payroll_entries, time_entries, system_settings>>

----------------------------------------------------------------------------
(* Bounds of the model *)

MaxReqs == 2      \* requests received in one behaviour; all may be in flight
MaxLogId == 2     \* log ids a resolve request may name: 1..MaxLogId

Reqs == 1..MaxReqs
LogIds == 1..MaxLogId
Users == <<"admin1", "admin2">>
\* the authenticated user of the n-th request (req.user.id)
UserOf(n) == Users[((n - 1) % Len(Users)) + 1]
Notes == <<"checked", "typo">>
\* the note the n-th request carries when it is a resolve (req.body.resolutionNotes)
NoteOf(n) == Notes[((n - 1) % Len(Notes)) + 1]

NULL == <<>>
Or0(x) == IF x = NULL THEN 0 ELSE x[1]

\* generic helpers
RECURSIVE Flatten(_)
Flatten(ss) == IF ss = <<>> THEN <<>> ELSE Head(ss) \o Flatten(Tail(ss))

RECURSIVE SumSeq(_)
SumSeq(s) == IF s = <<>> THEN 0 ELSE Head(s) + SumSeq(Tail(s))

Abs(x) == IF x < 0 THEN -x ELSE x

Max(a, b) == IF a > b THEN a ELSE b

\* |actual - n/d| > tol, actual and tol in base units (cents, hundredths of an hour)
Exceeds(actual, expected, tol) ==
    Abs(actual * expected[2] - expected[1]) > tol * expected[2]

\* a faulty variant of Minus: expected - actual
MinusReversed(actual, expected) == <<expected[1] - actual * expected[2], expected[2]>>

\* actual - n/d as a fraction over d
Minus(actual, expected) == <<actual * expected[2] - expected[1], expected[2]>>

----------------------------------------------------------------------------
(* Pay consistency *)

\* FROM payroll_entries pe JOIN employees e ON pe.employee_id = e.id
\* WHERE pe.payroll_period_id = ?
EmployeeOf(pe) == SelectSeq(employees, LAMBDA e : e.id = pe.employee_id)

PayrollEntriesQuery(periodId) ==
    LET rows == SelectSeq(payroll_entries,
                          LAMBDA pe : pe.payroll_period_id = periodId
                                      /\ EmployeeOf(pe) # <<>>)
    IN  [k \in 1..Len(rows) |->
            LET e == EmployeeOf(rows[k])[1]
            IN  [pe |-> rows[k], pay_type |-> e.pay_type, salary |-> e.salary,
                 hourly_rate |-> e.hourly_rate]]

\* the payroll entries among the rows of that query
EntriesRead(periodId) ==
    LET rows == PayrollEntriesQuery(periodId)
    IN  [k \in 1..Len(rows) |-> rows[k].pe]

SalaryDivisor == 26

\* a faulty variant of calculateExpectedGrossPay: the bi-weekly salary is rounded
\* to cents before it is compared
calculateExpectedGrossPayRounded(entry) ==
    IF entry.pay_type = "salary"
    THEN <<(2 * Or0(entry.salary) + SalaryDivisor) \div (2 * SalaryDivisor), 1>>
    ELSE LET h == Or0(entry.pe.hours_worked)
             o == Or0(entry.pe.overtime_hours)
             r == Or0(entry.hourly_rate)
         IN  <<2 * h * r + 3 * o * r, 200>>

calculateExpectedGrossPay(entry) ==
    IF entry.pay_type = "salary"
    THEN <<Or0(entry.salary), SalaryDivisor>>
    ELSE LET h == Or0(entry.pe.hours_worked)
             o == Or0(entry.pe.overtime_hours)
             r == Or0(entry.hourly_rate)
         IN  \* h/100 * r + o/100 * r * 1.5
             <<2 * h * r + 3 * o * r, 200>>

Discrepancy(type, employee_id, kind, expected, actual) ==
    [type |-> type, employee_id |-> employee_id, discrepancy_type |-> kind,
     expected_value |-> expected, actual_value |-> <<actual, 1>>,
     variance |-> Minus(actual, expected)]

\* a faulty variant of PayrollEntryChecks: the net pay is checked against the
\* recomputed gross pay
PayrollEntryChecksFromExpected(entry) ==
    LET expectedGrossPay == calculateExpectedGrossPay(entry)
        expectedNetPay == <<expectedGrossPay[1]
                            - entry.pe.total_deductions * expectedGrossPay[2],
                            expectedGrossPay[2]>>
    IN  (IF Exceeds(entry.pe.gross_pay, expectedGrossPay, 1)
         THEN <<Discrepancy("payroll", entry.pe.employee_id, "gross_pay_mismatch",
                            expectedGrossPay, entry.pe.gross_pay)>>
         ELSE <<>>)
        \o
        (IF Exceeds(entry.pe.net_pay, expectedNetPay, 1)
         THEN <<Discrepancy("payroll", entry.pe.employee_id, "net_pay_mismatch",
                            expectedNetPay, entry.pe.net_pay)>>
         ELSE <<>>)

PayrollEntryChecks(entry) ==
    LET expectedGrossPay == calculateExpectedGrossPay(entry)
        expectedNetPay == <<entry.pe.gross_pay - entry.pe.total_deductions, 1>>
    IN  (IF Exceeds(entry.pe.gross_pay, expectedGrossPay, 1)
         THEN <<Discrepancy("payroll", entry.pe.employee_id, "gross_pay_mismatch",
                            expectedGrossPay, entry.pe.gross_pay)>>
         ELSE <<>>)
        \o
        (IF Exceeds(entry.pe.net_pay, expectedNetPay, 1)
         THEN <<Discrepancy("payroll", entry.pe.employee_id, "net_pay_mismatch",
                            expectedNetPay, entry.pe.net_pay)>>
         ELSE <<>>)

runPayrollReconciliation(periodId) ==
    LET payrollEntries == PayrollEntriesQuery(periodId)
    IN  Flatten([k \in 1..Len(payrollEntries) |-> PayrollEntryChecks(payrollEntries[k])])

----------------------------------------------------------------------------
(* Attendance consistency *)

\* SELECT start_date, end_date FROM payroll_periods WHERE id = ?
PeriodQuery(periodId) == SelectSeq(payroll_periods, LAMBDA p : p.id = periodId)

\* employees e LEFT JOIN time_entries te ... LEFT JOIN payroll_entries pe ...
\* WHERE e.is_active GROUP BY e.id: one row per active employee.  The two
\* LEFT JOINs multiply: an employee with T eligible time entries and P payroll
\* entries contributes Max(T,1) * Max(P,1) joined rows to the SUMs.
AttendanceRow(e, start_date, end_date, periodId) ==
    LET te == SelectSeq(time_entries,
                        LAMBDA t : t.employee_id = e.id
                                   /\ t.date >= start_date /\ t.date <= end_date
                                   /\ t.status = "completed")
        pe == SelectSeq(payroll_entries,
                        LAMBDA p : p.employee_id = e.id /\ p.payroll_period_id = periodId)
        copies == Max(Len(pe), 1)
    IN  [employee_id |-> e.id,
         total_regular_hours |->
             IF te = <<>> THEN NULL
             ELSE <<copies * SumSeq([k \in 1..Len(te) |-> te[k].regular_hours])>>,
         total_overtime_hours |->
             IF te = <<>> THEN NULL
             ELSE <<copies * SumSeq([k \in 1..Len(te) |-> te[k].overtime_hours])>>,
         payroll_hours |-> IF pe = <<>> THEN NULL ELSE pe[1].hours_worked,
         payroll_overtime |-> IF pe = <<>> THEN NULL ELSE pe[1].overtime_hours]

AttendanceQuery(start_date, end_date, periodId) ==
    LET active == SelectSeq(employees, LAMBDA e : e.is_active)
    IN  [k \in 1..Len(active) |-> AttendanceRow(active[k], start_date, end_date, periodId)]

AttendanceRowChecks(data) ==
    (IF Exceeds(Or0(data.payroll_hours), <<Or0(data.total_regular_hours), 1>>, 25)
     THEN <<Discrepancy("attendance", data.employee_id, "regular_hours_mismatch",
                        <<Or0(data.total_regular_hours), 1>>, Or0(data.payroll_hours))>>
     ELSE <<>>)
    \o
    (IF Exceeds(Or0(data.payroll_overtime), <<Or0(data.total_overtime_hours), 1>>, 25)
     THEN <<Discrepancy("attendance", data.employee_id, "overtime_hours_mismatch",
                        <<Or0(data.total_overtime_hours), 1>>, Or0(data.payroll_overtime))>>
     ELSE <<>>)

\* the part of runAttendanceReconciliation after its period lookup
AttendanceChecks(period, periodId) ==
    LET attendanceData == AttendanceQuery(period.start_date, period.end_date, periodId)
    IN  Flatten([k \in 1..Len(attendanceData) |-> AttendanceRowChecks(attendanceData[k])])

----------------------------------------------------------------------------
(* Deduction consistency *)

\* rates in units of 1/10000
DefaultSssRate == 450
DefaultPhilhealthRate == 275
DefaultPagibigRate == 200

\* settings.reduce(...): setting_key -> parseFloat(setting_value)
SettingsMap(settings) ==
    [key \in {settings[k].setting_key : k \in 1..Len(settings)} |->
        LET rows == SelectSeq(settings, LAMBDA s : s.setting_key = key)
        IN  rows[Len(rows)].setting_value]

\* settingsMap[key] || dflt
RateOr(settingsMap, key, dflt) ==
    IF key \in DOMAIN settingsMap /\ settingsMap[key] # 0
    THEN settingsMap[key] ELSE dflt

DeductionCheck(entry, kind, stored, rate) ==
    LET expected == <<entry.pe.basic_pay * rate, 10000>>
    IN  IF Exceeds(stored, expected, 1)
        THEN <<Discrepancy("deductions", entry.pe.employee_id, kind, expected, stored)>>
        ELSE <<>>

DeductionEntryChecks(entry, settingsMap) ==
    DeductionCheck(entry, "sss_deduction_mismatch", entry.pe.sss_deduction,
                   RateOr(settingsMap, "sss_rate", DefaultSssRate))
    \o
    DeductionCheck(entry, "philhealth_deduction_mismatch", entry.pe.philhealth_deduction,
                   RateOr(settingsMap, "philhealth_rate", DefaultPhilhealthRate))
    \o
    DeductionCheck(entry, "pagibig_deduction_mismatch", entry.pe.pagibig_deduction,
                   RateOr(settingsMap, "pagibig_rate", DefaultPagibigRate))

\* the part of runDeductionReconciliation after getSystemSettings
DeductionChecks(settingsMap, periodId) ==
    LET payrollEntries == PayrollEntriesQuery(periodId)
    IN  Flatten([k \in 1..Len(payrollEntries) |->
                    DeductionEntryChecks(payrollEntries[k], settingsMap)])

----------------------------------------------------------------------------
(* The store *)

\* columns the INSERT of createReconciliationLog does not name
ColumnDefaults ==
    [status |-> "pending", resolved_by |-> NULL, resolved_at |-> NULL,
     resolution_notes |-> NULL]

\* a faulty variant of NewLogRow: the INSERT also stamps resolved_at
NewLogRowStamped(logs, clock, logData) ==
    [id |-> Len(logs) + 1,
     payroll_period_id |-> logData.payroll_period_id,
     reconciliation_type |-> logData.reconciliation_type,
     employee_id |-> logData.employee_id,
     discrepancy_type |-> logData.discrepancy_type,
     expected_value |-> logData.expected_value,
     actual_value |-> logData.actual_value,
     variance |-> logData.variance,
     status |-> ColumnDefaults.status,
     resolved_by |-> ColumnDefaults.resolved_by,
     resolved_at |-> <<clock>>,
     resolution_notes |-> ColumnDefaults.resolution_notes,
     created_at |-> clock]

\* Database.createReconciliationLog: the row the INSERT adds
NewLogRow(logs, clock, logData) ==
    [id |-> Len(logs) + 1,
     payroll_period_id |-> logData.payroll_period_id,
     reconciliation_type |-> logData.reconciliation_type,
     employee_id |-> logData.employee_id,
     discrepancy_type |-> logData.discrepancy_type,
     expected_value |-> logData.expected_value,
     actual_value |-> logData.actual_value,
     variance |-> logData.variance,
     status |-> ColumnDefaults.status,
     resolved_by |-> ColumnDefaults.resolved_by,
     resolved_at |-> ColumnDefaults.resolved_at,
     resolution_notes |-> ColumnDefaults.resolution_notes,
     created_at |-> clock]

\* a faulty variant of createReconciliationLog: a finding the store already holds
\* is replaced by the new one
createReconciliationLogOnce(logs, clock, logData) ==
    LET same(rl) == /\ rl.payroll_period_id = logData.payroll_period_id
                    /\ rl.reconciliation_type = logData.reconciliation_type
                    /\ rl.employee_id = logData.employee_id
                    /\ rl.discrepancy_type = logData.discrepancy_type
    IN  IF \E k \in 1..Len(logs) : same(logs[k])
        THEN [k \in 1..Len(logs) |->
                 IF same(logs[k])
                 THEN [NewLogRow(logs, clock, logData) EXCEPT !.id = logs[k].id]
                 ELSE logs[k]]
        ELSE Append(logs, NewLogRow(logs, clock, logData))

createReconciliationLog(logs, clock, logData) ==
    Append(logs, NewLogRow(logs, clock, logData))

\* UPDATE reconciliation_logs SET status = ?, resolved_by = ?, resolved_at = NOW(),
\* resolution_notes = ? WHERE id = ?
\* a faulty variant of UpdateMatches: the UPDATE without its WHERE clause
UpdateMatchesEveryRow(row, logId) == TRUE

UpdateMatches(row, logId) == row.id = logId

\* a faulty variant of ResolveUpdateRows: the UPDATE does not set resolved_by
ResolveUpdateRowsUnsigned(logs, clock, status, userId, resolutionNotes, logId) ==
    [k \in 1..Len(logs) |->
        IF UpdateMatches(logs[k], logId)
        THEN [logs[k] EXCEPT !.status = status,
                             !.resolved_at = <<clock>>,
                             !.resolution_notes = <<resolutionNotes>>]
        ELSE logs[k]]

ResolveUpdateRows(logs, clock, status, userId, resolutionNotes, logId) ==
    [k \in 1..Len(logs) |->
        IF UpdateMatches(logs[k], logId)
        THEN [logs[k] EXCEPT !.status = status,
                             !.resolved_by = <<userId>>,
                             !.resolved_at = <<clock>>,
                             !.resolution_notes = <<resolutionNotes>>]
        ELSE logs[k]]

\* Database.logAction: the audit row (who, what, which record)
AuditRow(userId, action, recordId) ==
    [user_id |-> userId, action |-> action, table_name |-> "reconciliation_logs",
     record_id |-> recordId]

\* Database.getReconciliationLogs(periodId, status): newest first
RECURSIVE Reverse(_)
Reverse(s) == IF s = <<>> THEN <<>> ELSE Reverse(Tail(s)) \o <<Head(s)>>

getReconciliationLogs(logs, periodId, status) ==
    Reverse(SelectSeq(logs, LAMBDA rl : rl.payroll_period_id = periodId
                                        /\ (status # "undefined" => rl.status = status)))

----------------------------------------------------------------------------
(* Requests *)

Idle == [kind |-> "none", pc |-> "idle", user |-> "", arg |-> <<>>,
         loc |-> <<>>, code |-> 0, body |-> <<>>]

\* the n-th request, received
Received(n, kind, arg, loc) ==
    [Idle EXCEPT !.kind = kind, !.user = UserOf(n), !.arg = arg, !.loc = loc]

InFlight(r) == r.pc \notin {"idle", "done"}

\* res.status(code).json(body)
Respond(r, code, body) == [r EXCEPT !.pc = "done", !.code = code, !.body = body]

\* requests are numbered in the order they arrive
MayStart(i) ==
    /\ req[i].pc = "idle"
    /\ \A j \in Reqs : j < i => req[j].pc # "idle"

----------------------------------------------------------------------------
(* PATCH /resolve/:logId *)

StatusArgs == {"resolved", "ignored", "pending", "undefined"}

\* a faulty variant of ValidStatus: 'pending' passes
ValidStatusAlsoPending(status) == status \in {"resolved", "ignored", "pending"}

\* ['resolved', 'ignored'].includes(status)
ValidStatus(status) == status \in {"resolved", "ignored"}

\* history kept with a resolve request: the status of the row it names when the
\* request arrived (seen) and when its UPDATE ran (prior); "none" when no row has
\* that id, "unsent" before the UPDATE
StatusOfId(logs, logId) ==
    IF logId \in 1..Len(logs) THEN logs[logId].status ELSE "none"

StartResolve(i) ==
    /\ MayStart(i)
    /\ \E logId \in LogIds, status \in StatusArgs :
         LET r == Received(i, "resolve",
                           [logId |-> logId, status |-> status,
                            resolutionNotes |-> NoteOf(i)],
                           [seen |-> StatusOfId(reconciliation_logs, logId),
                            prior |-> "unsent", failed |-> FALSE])
         IN  req' = [req EXCEPT ![i] =
                        IF ~ValidStatus(status)
                        THEN Respond(r, 400, "Invalid status")
                        ELSE [r EXCEPT !.pc = "update"]]
    /\ UNCHANGED <<inputs, reconciliation_logs, audit_logs, now, createdBy>>

ResolveUpdate(i) ==
    LET r == req[i] IN
    /\ r.kind = "resolve" /\ r.pc = "update"
    /\ reconciliation_logs' =
           ResolveUpdateRows(reconciliation_logs, now, r.arg.status, r.user,
                             r.arg.resolutionNotes, r.arg.logId)
    /\ now' = now + 1
    /\ req' = [req EXCEPT ![i].pc = "log",
                          ![i].loc.prior = StatusOfId(reconciliation_logs, r.arg.logId)]
    /\ UNCHANGED <<inputs, audit_logs, createdBy>>

ResolveLog(i) ==
    LET r == req[i] IN
    /\ r.kind = "resolve" /\ r.pc = "log"
    /\ audit_logs' = Append(audit_logs,
                            AuditRow(r.user, "RESOLVE_RECONCILIATION", r.arg.logId))
    /\ req' = [req EXCEPT ![i] = Respond(r, 200, "Reconciliation discrepancy resolved")]
    /\ UNCHANGED <<inputs, reconciliation_logs, now, createdBy>>

----------------------------------------------------------------------------
(* POST /run/:periodId *)

PeriodIds == {1, 2}
ScopeArgs == {"all", "payroll", "attendance", "deductions", "weekly", "undefined"}

\* const { reconciliationType = 'all' } = req.body
ScopeOrDefault(x) == IF x = "undefined" THEN "all" ELSE x

\* reconciliationType === 'all' || reconciliationType === category
Selected(reconciliationType, category) ==
    reconciliationType = "all" \/ reconciliationType = category

\* a faulty variant of PeriodMissing: the period check never fires
PeriodNeverMissing(period) == FALSE

\* !period.length
PeriodMissing(period) == Len(period) = 0

\* a faulty variant of Push: findings the store already holds as resolved are
\* left out
PushUnresolved(reconciliationResults, discrepancies) ==
    reconciliationResults
    \o SelectSeq(discrepancies,
                 LAMBDA d : ~\E k \in 1..Len(reconciliation_logs) :
                                 /\ reconciliation_logs[k].employee_id = d.employee_id
                                 /\ reconciliation_logs[k].discrepancy_type
                                        = d.discrepancy_type
                                 /\ reconciliation_logs[k].status = "resolved")

\* a faulty variant of Push: the new discrepancies go in front
PushFront(reconciliationResults, discrepancies) ==
    discrepancies \o reconciliationResults

\* reconciliationResults.push(...discrepancies)
Push(reconciliationResults, discrepancies) ==
    reconciliationResults \o discrepancies

\* the store call a run awaits next, from detector number n on
NextAwait(reconciliationType, n, results) ==
    IF n <= 1 /\ Selected(reconciliationType, "payroll") THEN "payroll"
    ELSE IF n <= 2 /\ Selected(reconciliationType, "attendance") THEN "attPeriod"
    ELSE IF n <= 3 /\ Selected(reconciliationType, "deductions") THEN "dedSettings"
    ELSE IF results # <<>> THEN "save"
    ELSE "log"

StartRun(i) ==
    /\ MayStart(i)
    /\ \E periodId \in PeriodIds, scope \in ScopeArgs :
         req' = [req EXCEPT ![i] =
                    [Received(i, "run",
                              [periodId |-> periodId,
                               reconciliationType |-> ScopeOrDefault(scope)],
                              [reconciliationResults |-> <<>>, saved |-> 0,
                               period |-> <<>>, settingsMap |-> <<>>,
                               failed |-> FALSE,
                               \* history: what the queries of the run returned
                               found |-> <<>>, payrollRead |-> <<>>,
                               deductionsRead |-> <<>>])
                     EXCEPT !.pc = "lookup"]]
    /\ UNCHANGED <<inputs, reconciliation_logs, audit_logs, now, createdBy>>

RunLookup(i) ==
    LET r == req[i]
        period == PeriodQuery(r.arg.periodId)
    IN
    /\ r.kind = "run" /\ r.pc = "lookup"
    /\ req' = [req EXCEPT ![i] =
                  IF PeriodMissing(period)
                  THEN Respond(r, 404, "Payroll period not found")
                  ELSE [r EXCEPT !.pc = NextAwait(r.arg.reconciliationType, 1, <<>>),
                                 !.loc.found = period]]
    /\ UNCHANGED <<inputs, reconciliation_logs, audit_logs, now, createdBy>>

\* a faulty variant of RunPayroll: the detector writes the net pay it expects
\* back into the entries
RunPayrollRepairing(i) ==
    LET r == req[i]
        results == Push(r.loc.reconciliationResults,
                        runPayrollReconciliation(r.arg.periodId))
    IN
    /\ r.kind = "run" /\ r.pc = "payroll"
    /\ req' = [req EXCEPT ![i].loc.reconciliationResults = results,
                          ![i].loc.payrollRead = <<EntriesRead(r.arg.periodId)>>,
                          ![i].pc = NextAwait(r.arg.reconciliationType, 2, results)]
    /\ payroll_entries' =
           [k \in 1..Len(payroll_entries) |->
               [payroll_entries[k] EXCEPT
                   !.net_pay = payroll_entries[k].gross_pay
                               - payroll_entries[k].total_deductions]]
    /\ UNCHANGED <<payroll_periods, employees, time_entries, system_settings,
                   reconciliation_logs, audit_logs, now, createdBy>>

RunPayroll(i) ==
    LET r == req[i]
        results == Push(r.loc.reconciliationResults,
                        runPayrollReconciliation(r.arg.periodId))
    IN
    /\ r.kind = "run" /\ r.pc = "payroll"
    /\ req' = [req EXCEPT ![i].loc.reconciliationResults = results,
                          ![i].loc.payrollRead = <<EntriesRead(r.arg.periodId)>>,
                          ![i].pc = NextAwait(r.arg.reconciliationType, 2, results)]
    /\ UNCHANGED <<inputs, reconciliation_logs, audit_logs, now, createdBy>>

RunAttendancePeriod(i) ==
    LET r == req[i]
        period == PeriodQuery(r.arg.periodId)
    IN
    /\ r.kind = "run" /\ r.pc = "attPeriod"
    /\ req' = [req EXCEPT ![i].loc.period = period,
                          ![i].pc = IF PeriodMissing(period)
                                    THEN NextAwait(r.arg.reconciliationType, 3,
                                                   r.loc.reconciliationResults)
                                    ELSE "attData"]
    /\ UNCHANGED <<inputs, reconciliation_logs, audit_logs, now, createdBy>>

RunAttendanceData(i) ==
    LET r == req[i]
        results == Push(r.loc.reconciliationResults,
                        AttendanceChecks(r.loc.period[1], r.arg.periodId))
    IN
    /\ r.kind = "run" /\ r.pc = "attData"
    /\ req' = [req EXCEPT ![i].loc.reconciliationResults = results,
                          ![i].pc = NextAwait(r.arg.reconciliationType, 3, results)]
    /\ UNCHANGED <<inputs, reconciliation_logs, audit_logs, now, createdBy>>

RunDeductionSettings(i) ==
    LET r == req[i] IN
    /\ r.kind = "run" /\ r.pc = "dedSettings"
    /\ req' = [req EXCEPT ![i].loc.settingsMap = SettingsMap(system_settings),
                          ![i].pc = "dedEntries"]
    /\ UNCHANGED <<inputs, reconciliation_logs, audit_logs, now, createdBy>>

RunDeductionEntries(i) ==
    LET r == req[i]
        results == Push(r.loc.reconciliationResults,
                        DeductionChecks(r.loc.settingsMap, r.arg.periodId))
    IN
    /\ r.kind = "run" /\ r.pc = "dedEntries"
    /\ req' = [req EXCEPT ![i].loc.reconciliationResults = results,
                          ![i].loc.deductionsRead = <<EntriesRead(r.arg.periodId)>>,
                          ![i].pc = NextAwait(r.arg.reconciliationType, 4, results)]
    /\ UNCHANGED <<inputs, reconciliation_logs, audit_logs, now, createdBy>>

\* the argument the handler builds for createReconciliationLog
LogData(periodId, discrepancy) ==
    [payroll_period_id |-> periodId,
     reconciliation_type |-> discrepancy.type,
     employee_id |-> discrepancy.employee_id,
     discrepancy_type |-> discrepancy.discrepancy_type,
     expected_value |-> discrepancy.expected_value,
     actual_value |-> discrepancy.actual_value,
     variance |-> discrepancy.variance]

\* one turn of the loop over reconciliationResults: one INSERT
RunSave(i) ==
    LET r == req[i]
        k == r.loc.saved + 1
    IN
    /\ r.kind = "run" /\ r.pc = "save"
    /\ reconciliation_logs' =
           createReconciliationLog(reconciliation_logs, now,
                                   LogData(r.arg.periodId, r.loc.reconciliationResults[k]))
    /\ createdBy' = Append(createdBy, i)
    /\ now' = now + 1
    /\ req' = [req EXCEPT ![i].loc.saved = k,
                          ![i].pc = IF k = Len(r.loc.reconciliationResults)
                                    THEN "log" ELSE "save"]
    /\ UNCHANGED <<inputs, audit_logs>>

RunLog(i) ==
    LET r == req[i] IN
    /\ r.kind = "run" /\ r.pc = "log"
    /\ audit_logs' = Append(audit_logs,
                            AuditRow(r.user, "RUN_RECONCILIATION", r.arg.periodId))
    /\ req' = [req EXCEPT ![i] =
                  Respond(r, 200,
                          [discrepanciesFound |-> Len(r.loc.reconciliationResults),
                           results |-> r.loc.reconciliationResults])]
    /\ UNCHANGED <<inputs, reconciliation_logs, now, createdBy>>

----------------------------------------------------------------------------
(* A store call that fails: the handler's catch answers 500 *)

\* a faulty variant of Fail: the catch logs the error and sends no answer
FailSilently(i) ==
    /\ InFlight(req[i])
    /\ req' = [req EXCEPT ![i].pc = "hung", ![i].loc.failed = TRUE]
    /\ UNCHANGED <<inputs, reconciliation_logs, audit_logs, now, createdBy>>

Fail(i) ==
    /\ InFlight(req[i])
    /\ req' = [req EXCEPT ![i] = Respond([req[i] EXCEPT !.loc.failed = TRUE], 500,
                                         "Failed")]
    /\ UNCHANGED <<inputs, reconciliation_logs, audit_logs, now, createdBy>>

----------------------------------------------------------------------------
(* Writers of the tables the detectors read *)

\* rows of an uploaded payroll file
ImportFile ==
    << [employee_id |-> 2, gross_pay |-> 100000, basic_pay |-> 100000,
        sss_deduction |-> 4500, philhealth_deduction |-> 2750,
        pagibig_deduction |-> 2000, net_pay |-> 90750] >>

\* SELECT id FROM payroll_periods WHERE status = "open" ORDER BY start_date DESC
\* LIMIT 1 (every period of the model is open)
OpenPeriod ==
    CHOOSE p \in {payroll_periods[k] : k \in 1..Len(payroll_periods)} :
        \A k \in 1..Len(payroll_periods) : payroll_periods[k].start_date <= p.start_date

\* the row the INSERT of processPayrollRow adds; the INSERT names no hours
ImportedEntry(rowData) ==
    [employee_id |-> rowData.employee_id, payroll_period_id |-> OpenPeriod.id,
     hours_worked |-> NULL, overtime_hours |-> NULL,
     basic_pay |-> rowData.basic_pay, gross_pay |-> rowData.gross_pay,
     sss_deduction |-> rowData.sss_deduction,
     philhealth_deduction |-> rowData.philhealth_deduction,
     pagibig_deduction |-> rowData.pagibig_deduction,
     total_deductions |-> rowData.sss_deduction + rowData.philhealth_deduction
                          + rowData.pagibig_deduction,
     net_pay |-> rowData.net_pay]

\* the entries the store started with
StoredEntries == 2

\* processPayrollRow: the next row of the file is inserted
ImportPayrollRow ==
    LET k == Len(payroll_entries) - StoredEntries + 1 IN
    /\ k \in 1..Len(ImportFile)
    /\ payroll_periods # <<>>
    /\ payroll_entries' = Append(payroll_entries, ImportedEntry(ImportFile[k]))
    /\ UNCHANGED <<payroll_periods, employees, time_entries, system_settings,
                   reconciliation_logs, audit_logs, now, req, createdBy>>

SettingValues == {250}

\* Database.updateSystemSetting: UPDATE system_settings SET setting_value = ?
\* WHERE setting_key = ?
updateSystemSetting(settings, key, value) ==
    [k \in 1..Len(settings) |->
        IF settings[k].setting_key = key
        THEN [settings[k] EXCEPT !.setting_value = value]
        ELSE settings[k]]

UpdateSetting ==
    /\ \E value \in SettingValues :
         system_settings' = updateSystemSetting(system_settings, "pagibig_rate", value)
    /\ UNCHANGED <<payroll_periods, employees, payroll_entries, time_entries,
                   reconciliation_logs, audit_logs, now, req, createdBy>>

Period2 == [id |-> 2, start_date |-> 15, end_date |-> 28]

\* Database.createPayrollPeriod: INSERT INTO payroll_periods
CreatePayrollPeriod ==
    /\ Len(payroll_periods) = 1
    /\ payroll_periods' = Append(payroll_periods, Period2)
    /\ UNCHANGED <<employees, payroll_entries, time_entries, system_settings,
                   reconciliation_logs, audit_logs, now, req, createdBy>>

----------------------------------------------------------------------------
(* GET /results/:periodId *)

StatusFilters == {"undefined", "pending", "resolved"}
TypeFilters == {"undefined", "payroll"}

\* a faulty variant of FilterByType: the type is not looked at
FilterByTypeIgnored(results, type) == results

\* results.filter(r => r.reconciliation_type === type), when type is given
FilterByType(results, type) ==
    IF type = "undefined" THEN results
    ELSE SelectSeq(results, LAMBDA rl : rl.reconciliation_type = type)

\* filteredResults.reduce(...): reconciliation_type -> the rows of that type
GroupByType(filteredResults) ==
    [t \in {filteredResults[k].reconciliation_type : k \in 1..Len(filteredResults)} |->
        SelectSeq(filteredResults, LAMBDA rl : rl.reconciliation_type = t)]

CountStatus(rows, status) == Len(SelectSeq(rows, LAMBDA rl : rl.status = status))

\* sum of |variance|, kept exact: denominator d -> sum of |n| over the rows n/d
SumAbsVariance(rows) ==
    [d \in {rows[k].variance[2] : k \in 1..Len(rows)} |->
        LET sel == SelectSeq(rows, LAMBDA rl : rl.variance[2] = d)
        IN  SumSeq([k \in 1..Len(sel) |-> Abs(sel[k].variance[1])])]

Summary(filteredResults) ==
    [total |-> Len(filteredResults),
     pending |-> CountStatus(filteredResults, "pending"),
     resolved |-> CountStatus(filteredResults, "resolved"),
     ignored |-> CountStatus(filteredResults, "ignored"),
     totalVariance |-> SumAbsVariance(filteredResults)]

StartResults(i) ==
    /\ MayStart(i)
    /\ \E periodId \in PeriodIds, status \in StatusFilters, type \in TypeFilters :
         req' = [req EXCEPT ![i] =
                    [Received(i, "results",
                              [periodId |-> periodId, status |-> status, type |-> type],
                              [summary |-> <<>>, groupedResults |-> <<>>,
                               failed |-> FALSE])
                     EXCEPT !.pc = "logs"]]
    /\ UNCHANGED <<inputs, reconciliation_logs, audit_logs, now, createdBy>>

ResultsLogs(i) ==
    LET r == req[i]
        results == getReconciliationLogs(reconciliation_logs, r.arg.periodId, r.arg.status)
        filteredResults == FilterByType(results, r.arg.type)
    IN
    /\ r.kind = "results" /\ r.pc = "logs"
    /\ req' = [req EXCEPT ![i].loc.summary = Summary(filteredResults),
                          ![i].loc.groupedResults = GroupByType(filteredResults),
                          ![i].pc = "period"]
    /\ UNCHANGED <<inputs, reconciliation_logs, audit_logs, now, createdBy>>

ResultsPeriod(i) ==
    LET r == req[i] IN
    /\ r.kind = "results" /\ r.pc = "period"
    /\ req' = [req EXCEPT ![i] =
                  Respond(r, 200, [summary |-> r.loc.summary,
                                   results |-> r.loc.groupedResults,
                                   period |-> PeriodQuery(r.arg.periodId)])]
    /\ UNCHANGED <<inputs, reconciliation_logs, audit_logs, now, createdBy>>

----------------------------------------------------------------------------
(* GET /dashboard *)

\* exact fractions n/d, d > 0
RECURSIVE GCD(_, _)
GCD(a, b) == IF b = 0 THEN a ELSE GCD(b, a % b)

Reduce(f) ==
    LET g == GCD(Abs(f[1]), f[2]) IN <<f[1] \div g, f[2] \div g>>

AddFrac(a, b) ==
    LET x == Reduce(a)
        y == Reduce(b)
    IN  Reduce(<<x[1] * y[2] + y[1] * x[2], x[2] * y[2]>>)

LessFrac(a, b) == a[1] * b[2] < b[1] * a[2]

AbsFrac(f) == <<Abs(f[1]), f[2]>>

\* SUM(ABS(variance)) over rows (summed by halves): NULL over no row
RECURSIVE SumAbs(_)
SumAbs(rows) ==
    IF rows = <<>> THEN <<0, 1>>
    ELSE IF Len(rows) = 1 THEN Reduce(AbsFrac(rows[1].variance))
    ELSE LET h == Len(rows) \div 2
         IN  AddFrac(SumAbs(SubSeq(rows, 1, h)), SumAbs(SubSeq(rows, h + 1, Len(rows))))

SumAbsOrNull(rows) == IF rows = <<>> THEN NULL ELSE <<SumAbs(rows)>>

\* ORDER BY: rows[j] comes before rows[k] when before[<<j, k>>] says so; rows the
\* ORDER BY does not tell apart come in the order of the grouping, or in its reverse
OrderBy(rows, before, tieAsc) ==
    LET n == Len(rows)
        first(j, k) ==
            \/ before[<<j, k>>]
            \/ ~before[<<k, j>>] /\ (IF tieAsc THEN j < k ELSE j > k)
        pos(k) == 1 + Cardinality({j \in 1..n : first(j, k)})
    IN  [p \in 1..n |-> rows[CHOOSE k \in 1..n : pos(k) = p]]

\* LIMIT n
Limit(rows, n) == SubSeq(rows, 1, IF Len(rows) < n THEN Len(rows) ELSE n)

\* the day of NOW()
Today == 20

DefaultDateRange == 30
DateRanges == {"undefined", "7"}

\* const { dateRange = '30' } = req.query; parseInt(dateRange)
DateRangeOrDefault(x) == IF x = "undefined" THEN DefaultDateRange ELSE 7

Departments == {"undefined", "ops", "fin"}

\* pp.start_date >= DATE_SUB(NOW(), INTERVAL ? DAY): a DATE against a DATETIME,
\* so the day NOW() - days itself is inside only at midnight
InWindow(start_date, days, midnight) ==
    IF midnight THEN start_date >= Today - days ELSE start_date > Today - days

\* EXISTS (SELECT 1 FROM employees e WHERE e.id = rl.employee_id AND e.department = ?)
InDepartment(rl, department) ==
    \E k \in 1..Len(employees) :
        employees[k].id = rl.employee_id /\ employees[k].department = department

\* payroll_periods pp LEFT JOIN reconciliation_logs rl ON pp.id = rl.payroll_period_id:
\* the joined rows of one period, rl NULL when the period has no log
JoinedLogs(pp) ==
    LET rls == SelectSeq(reconciliation_logs, LAMBDA rl : rl.payroll_period_id = pp.id)
    IN  IF rls = <<>> THEN <<NULL>> ELSE [k \in 1..Len(rls) |-> <<rls[k]>>]

\* the WHERE clause on one joined row; with a department the EXISTS is false
\* on a row whose rl is NULL
PeriodSummaryWhere(pp, j, days, midnight, department) ==
    /\ InWindow(pp.start_date, days, midnight)
    /\ department # "undefined" => (j # NULL /\ InDepartment(j[1], department))

\* GROUP BY pp.id: a period has a row when one of its joined rows passes
PeriodSummaryRow(pp, kept) ==
    LET rls == [k \in 1..Len(kept) |-> kept[k][1]]
    IN  [period_id |-> pp.id, start_date |-> pp.start_date, end_date |-> pp.end_date,
         total_discrepancies |-> Len(rls),
         pending_discrepancies |-> CountStatus(rls, "pending"),
         resolved_discrepancies |-> CountStatus(rls, "resolved"),
         total_variance |-> SumAbsOrNull(rls)]

PeriodSummaryQuery(days, midnight, department, tieAsc) ==
    LET passing(pp) == SelectSeq(JoinedLogs(pp),
                                 LAMBDA j : PeriodSummaryWhere(pp, j, days, midnight,
                                                               department))
        groups == SelectSeq(payroll_periods, LAMBDA pp : passing(pp) # <<>>)
        rows == [k \in 1..Len(groups) |->
                    PeriodSummaryRow(groups[k],
                                     SelectSeq(passing(groups[k]), LAMBDA j : j # NULL))]
        before == [jk \in (1..Len(rows)) \X (1..Len(rows)) |->
                      rows[jk[1]].start_date > rows[jk[2]].start_date]
    IN  OrderBy(rows, before, tieAsc)

\* reconciliation_logs rl JOIN payroll_periods pp ... WHERE the period is in the window
LogsInWindow(days, midnight) ==
    SelectSeq(reconciliation_logs,
              LAMBDA rl : \E k \in 1..Len(payroll_periods) :
                              /\ payroll_periods[k].id = rl.payroll_period_id
                              /\ InWindow(payroll_periods[k].start_date, days, midnight))

\* GROUP BY reconciliation_type, discrepancy_type ORDER BY count DESC
DiscrepancyTypesQuery(days, midnight, tieAsc) ==
    LET rls == LogsInWindow(days, midnight)
        first == SelectSeq([k \in 1..Len(rls) |-> k],
                           LAMBDA k : \A j \in 1..(k - 1) :
                               \/ rls[j].reconciliation_type # rls[k].reconciliation_type
                               \/ rls[j].discrepancy_type # rls[k].discrepancy_type)
        rows == [g \in 1..Len(first) |->
                    LET of == SelectSeq(rls, LAMBDA rl :
                                  /\ rl.reconciliation_type = rls[first[g]].reconciliation_type
                                  /\ rl.discrepancy_type = rls[first[g]].discrepancy_type)
                    IN  [reconciliation_type |-> rls[first[g]].reconciliation_type,
                         discrepancy_type |-> rls[first[g]].discrepancy_type,
                         count |-> Len(of),
                         \* AVG(ABS(variance)) = sum / count
                         avg_variance |-> Reduce(<<SumAbs(of)[1], SumAbs(of)[2] * Len(of)>>)]]
        before == [jk \in (1..Len(rows)) \X (1..Len(rows)) |->
                      rows[jk[1]].count > rows[jk[2]].count]
    IN  OrderBy(rows, before, tieAsc)

TopLimit == 10

\* a faulty variant of TopBefore: ties on the count are not broken by the variance
TopBeforeCountOnly(a, b) == a.discrepancy_count > b.discrepancy_count

\* ORDER BY discrepancy_count DESC, total_variance DESC
TopBefore(a, b) ==
    \/ a.discrepancy_count > b.discrepancy_count
    \/ /\ a.discrepancy_count = b.discrepancy_count
       /\ LessFrac(b.total_variance, a.total_variance)

\* reconciliation_logs rl JOIN employees e JOIN payroll_periods pp
\* WHERE window AND rl.status = 'pending' GROUP BY e.id ORDER BY ... LIMIT 10
TopEmployeesQuery(days, midnight, tieAsc) ==
    LET rls == SelectSeq(LogsInWindow(days, midnight), LAMBDA rl : rl.status = "pending")
        of(e) == SelectSeq(rls, LAMBDA rl : rl.employee_id = e.id)
        groups == SelectSeq(employees, LAMBDA e : of(e) # <<>>)
        rows == [k \in 1..Len(groups) |->
                    [employee_id |-> groups[k].id,
                     department |-> groups[k].department,
                     discrepancy_count |-> Len(of(groups[k])),
                     total_variance |-> SumAbs(of(groups[k]))]]
        before == [jk \in (1..Len(rows)) \X (1..Len(rows)) |->
                      TopBefore(rows[jk[1]], rows[jk[2]])]
    IN  Limit(OrderBy(rows, before, tieAsc), TopLimit)

StartDashboard(i) ==
    /\ MayStart(i)
    /\ \E department \in Departments, dateRange \in DateRanges :
         req' = [req EXCEPT ![i] =
                    [Received(i, "dashboard",
                              [department |-> department,
                               dateRange |-> DateRangeOrDefault(dateRange)],
                              [periodSummary |-> <<>>, discrepancyTypes |-> <<>>,
                               failed |-> FALSE])
                     EXCEPT !.pc = "periodSummary"]]
    /\ UNCHANGED <<inputs, reconciliation_logs, audit_logs, now, createdBy>>

DashboardPeriodSummary(i) ==
    LET r == req[i] IN
    /\ r.kind = "dashboard" /\ r.pc = "periodSummary"
    /\ \E midnight, tieAsc \in BOOLEAN :
         req' = [req EXCEPT ![i].loc.periodSummary =
                                PeriodSummaryQuery(r.arg.dateRange, midnight,
                                                   r.arg.department, tieAsc),
                            ![i].pc = "discrepancyTypes"]
    /\ UNCHANGED <<inputs, reconciliation_logs, audit_logs, now, createdBy>>

DashboardDiscrepancyTypes(i) ==
    LET r == req[i] IN
    /\ r.kind = "dashboard" /\ r.pc = "discrepancyTypes"
    /\ \E midnight, tieAsc \in BOOLEAN :
         req' = [req EXCEPT ![i].loc.discrepancyTypes =
                                DiscrepancyTypesQuery(r.arg.dateRange, midnight, tieAsc),
                            ![i].pc = "topEmployees"]
    /\ UNCHANGED <<inputs, reconciliation_logs, audit_logs, now, createdBy>>

DashboardTopEmployees(i) ==
    LET r == req[i] IN
    /\ r.kind = "dashboard" /\ r.pc = "topEmployees"
    /\ \E midnight, tieAsc \in BOOLEAN :
         req' = [req EXCEPT ![i] =
                    Respond(r, 200,
                            [periodSummary |-> r.loc.periodSummary,
                             discrepancyTypes |-> r.loc.discrepancyTypes,
                             topEmployees |-> TopEmployeesQuery(r.arg.dateRange, midnight,
                                                                tieAsc),
                             dateRange |-> r.arg.dateRange])]
    /\ UNCHANGED <<inputs, reconciliation_logs, audit_logs, now, createdBy>>

----------------------------------------------------------------------------
(* The data the engine reads.  Dates are day numbers. *)

Period1 == [id |-> 1, start_date |-> 1, end_date |-> 14]

Hourly1 == [id |-> 1, is_active |-> TRUE, pay_type |-> "hourly",
            salary |-> NULL, hourly_rate |-> <<10000>>, department |-> "ops"]
Salaried2 == [id |-> 2, is_active |-> TRUE, pay_type |-> "salary",
              salary |-> <<2600000>>, hourly_rate |-> NULL, department |-> "fin"]
Inactive3 == [id |-> 3, is_active |-> FALSE, pay_type |-> "hourly",
              salary |-> NULL, hourly_rate |-> <<5000>>, department |-> "ops"]

TimeEntry(employee_id, date, regular_hours, overtime_hours, status) ==
    [employee_id |-> employee_id, date |-> date, regular_hours |-> regular_hours,
     overtime_hours |-> overtime_hours, status |-> status]

\* 80 h and 4 h overtime at 100.00: expected gross 8600.00, stored 8300.00
EntryA == [employee_id |-> 1, payroll_period_id |-> 1,
           hours_worked |-> <<8000>>, overtime_hours |-> <<400>>,
           basic_pay |-> 800000, gross_pay |-> 830000,
           sss_deduction |-> 36000, philhealth_deduction |-> 22000,
           pagibig_deduction |-> 16000,
           total_deductions |-> 76000, net_pay |-> 754000]

\* salary 26000.00: expected gross 1000.00; net and Pag-IBIG are off
EntryB == [employee_id |-> 2, payroll_period_id |-> 1,
           hours_worked |-> NULL, overtime_hours |-> NULL,
           basic_pay |-> 100000, gross_pay |-> 100000,
           sss_deduction |-> 4500, philhealth_deduction |-> 2750,
           pagibig_deduction |-> 2500,
           total_deductions |-> 9750, net_pay |-> 90000]

EntryTables == { <<EntryA, EntryB>> }

SettingTables == { <<>> }

\* what a run of scope 'all' computes when nothing interleaves with it
AllChecks(periodId) ==
    LET period == PeriodQuery(periodId)
    IN  runPayrollReconciliation(periodId)
        \o (IF PeriodMissing(period) THEN <<>> ELSE AttendanceChecks(period[1], periodId))
        \o DeductionChecks(SettingsMap(system_settings), periodId)

\* the loop of INSERTs of a run that completes
RECURSIVE SaveAll(_, _, _, _)
SaveAll(logs, clock, periodId, results) ==
    IF results = <<>> THEN logs
    ELSE SaveAll(createReconciliationLog(logs, clock, LogData(periodId, Head(results))),
                 clock + 1, periodId, Tail(results))

Init ==
    /\ payroll_periods = <<Period1>>
    /\ employees = <<Hourly1, Salaried2, Inactive3>>
    /\ payroll_entries \in EntryTables
    /\ time_entries = << TimeEntry(1, 3, 4000, 200, "completed"),
                         TimeEntry(1, 5, 4000, 200, "completed"),
                         TimeEntry(1, 20, 800, 0, "completed"),
                         TimeEntry(1, 4, 800, 0, "active"),
                         TimeEntry(3, 3, 800, 0, "completed") >>
    /\ system_settings \in SettingTables
    \* the store is empty, or holds the batch of one earlier complete run
    /\ \E earlier \in BOOLEAN :
         /\ reconciliation_logs =
                IF earlier THEN SaveAll(<<>>, 1, Period1.id, AllChecks(Period1.id)) ELSE <<>>
         /\ audit_logs =
                IF earlier THEN <<AuditRow(UserOf(1), "RUN_RECONCILIATION", Period1.id)>>
                ELSE <<>>
    /\ now = Len(reconciliation_logs) + 1
    /\ req = [i \in Reqs |-> Idle]
    /\ createdBy = [k \in 1..Len(reconciliation_logs) |-> 0]

\* the same store with 8 h of attendance of the salaried employee, against
\* which the payroll entry records no hours; no run has been made yet
InitAttendance ==
    /\ payroll_periods = <<Period1>>
    /\ employees = <<Hourly1, Salaried2, Inactive3>>
    /\ payroll_entries \in EntryTables
    /\ time_entries = << TimeEntry(1, 3, 4000, 200, "completed"),
                         TimeEntry(1, 5, 4000, 200, "completed"),
                         TimeEntry(2, 6, 800, 0, "completed"),
                         TimeEntry(3, 3, 800, 0, "completed") >>
    /\ system_settings \in SettingTables
    /\ reconciliation_logs = <<>>
    /\ audit_logs = <<>>
    /\ now = 1
    /\ req = [i \in Reqs |-> Idle]
    /\ createdBy = <<>>

\* the same store with a Pag-IBIG rate set, no run made yet
InitSettings ==
    /\ payroll_periods = <<Period1>>
    /\ employees = <<Hourly1, Salaried2, Inactive3>>
    /\ payroll_entries = <<EntryA, EntryB>>
    /\ time_entries = << TimeEntry(1, 3, 4000, 200, "completed"),
                         TimeEntry(1, 5, 4000, 200, "completed") >>
    /\ system_settings = <<[setting_key |-> "pagibig_rate", setting_value |-> 200]>>
    /\ reconciliation_logs = <<>>
    /\ audit_logs = <<>>
    /\ now = 1
    /\ req = [i \in Reqs |-> Idle]
    /\ createdBy = <<>>

\* A store for the dashboard: twelve employees and four periods (one inside
\* both windows, one inside the 30-day window only, one on its first day, one
\* before it), and the rows that runs and resolutions have left
\* employees the dashboard store holds
StaffSize == 12

Staff(n) ==
    [id |-> n, is_active |-> TRUE, pay_type |-> "hourly", salary |-> NULL,
     hourly_rate |-> <<10000>>, department |-> IF n % 2 = 1 THEN "ops" ELSE "fin"]

PeriodOld == [id |-> 3, start_date |-> -20, end_date |-> -7]
PeriodEdge == [id |-> 4, start_date |-> Today - DefaultDateRange, end_date |-> 0]

\* a row as a run leaves it and, when status is not 'pending', as a resolution
\* then leaves it; ids and creation times are given by the place in the table
FoundRow(employee_id, periodId, variance, status) ==
    [id |-> 0,
     payroll_period_id |-> periodId,
     reconciliation_type |-> "payroll",
     employee_id |-> employee_id,
     discrepancy_type |-> IF variance < 0 THEN "gross_pay_mismatch" ELSE "net_pay_mismatch",
     expected_value |-> <<100000, 1>>,
     actual_value |-> <<100000 + variance, 1>>,
     variance |-> <<variance, 1>>,
     status |-> status,
     resolved_by |-> IF status = "pending" THEN NULL ELSE <<UserOf(1)>>,
     resolved_at |-> IF status = "pending" THEN NULL ELSE <<1>>,
     resolution_notes |-> IF status = "pending" THEN NULL ELSE <<NoteOf(1)>>,
     created_at |-> 0]

Numbered(rows) ==
    [k \in 1..Len(rows) |-> [rows[k] EXCEPT !.id = k, !.created_at = k]]

\* employee e has 1 + (e * a) % 3 pending rows in period 1, each of variance
\* +-(1 + (e * b) % 4).00
PendingRows(e, a, b) ==
    [k \in 1..(1 + ((e * a) % 3)) |->
        FoundRow(e, Period1.id,
                 (IF e % 2 = 1 THEN -100 ELSE 100) * (1 + ((e * b) % 4)),
                 "pending")]

DashboardLogs(n, a, b) ==
    Numbered(Flatten([e \in 1..n |-> PendingRows(e, a, b)])
             \o [k \in 1..4 |-> FoundRow(12, PeriodOld.id, -900, "pending")]
             \o [k \in 1..4 |-> FoundRow(12, Period1.id, 900,
                                          IF k = 1 THEN "ignored" ELSE "resolved")]
             \o <<FoundRow(10, PeriodEdge.id, 700, "pending"),
                  FoundRow(9, Period2.id, -50, "pending"),
                  FoundRow(9, Period2.id, 50, "pending")>>)

InitDashboard ==
    /\ payroll_periods = <<Period1, Period2, PeriodOld, PeriodEdge>>
    /\ employees = [n \in 1..StaffSize |-> Staff(n)]
    /\ payroll_entries = <<>>
    /\ time_entries = <<>>
    /\ system_settings = <<>>
    /\ \E n \in 0..StaffSize, a \in 1..3, b \in 0..2 :
         reconciliation_logs = DashboardLogs(n, a, b)
    /\ audit_logs = <<>>
    /\ now = Len(reconciliation_logs) + 1
    /\ req = [i \in Reqs |-> Idle]
    /\ createdBy = [k \in 1..Len(reconciliation_logs) |-> 0]

\* A store for the payroll detector: an hourly and a salaried employee whose
\* entries vary, two hourly employees with an entry whose gross pay alone and
\* whose net pay alone is off, and a later entry of the first employee in
\* period 2; no run made yet.  Stored amounts lie on both sides of the tolerance.

\* hourly_rate of employee 1 and the hours, overtime and gross pay of its entry
HourlyCases ==
    { <<<<10000>>, <<8000>>, <<400>>, 830000>>,
      <<<<10000>>, <<8000>>, <<400>>, 859998>>,
      <<<<10000>>, <<8000>>, <<400>>, 860000>>,
      <<<<10000>>, <<8000>>, <<400>>, 860001>>,
      <<<<10000>>, <<8000>>, <<400>>, 860002>>,
      <<<<10000>>, <<8000>>, NULL, 800000>>,
      <<<<10000>>, NULL, <<400>>, 60000>>,
      <<<<10000>>, NULL, NULL, 0>>,
      <<NULL, <<8000>>, <<400>>, 0>>,
      <<NULL, <<8000>>, <<400>>, 860000>> }

\* salary of employee 2 and the gross pay of its entry
SalaryCases ==
    { <<<<2600000>>, 100000>>, <<<<2600000>>, 100001>>, <<<<2600000>>, 100002>>,
      <<<<2600000>>, 99998>>,
      <<<<100000>>, 3845>>, <<<<100000>>, 3846>>, <<<<100000>>, 3847>>,
      <<NULL, 0>>, <<NULL, 100000>> }

\* net_pay - (gross_pay - total_deductions) of an entry, in cents
NetOffsets == {-2, -1, 0, 2}

PayrollEntry(employee_id, periodId, hours, overtime, gross, offset) ==
    [employee_id |-> employee_id, payroll_period_id |-> periodId,
     hours_worked |-> hours, overtime_hours |-> overtime,
     basic_pay |-> 100000, gross_pay |-> gross,
     sss_deduction |-> 4500, philhealth_deduction |-> 2750,
     pagibig_deduction |-> 2000,
     total_deductions |-> 9250, net_pay |-> gross - 9250 + offset]

InitPayroll ==
    /\ payroll_periods = <<Period1, Period2>>
    /\ \E hc \in HourlyCases, sc \in SalaryCases :
         /\ employees = <<[Hourly1 EXCEPT !.hourly_rate = hc[1]],
                          [Salaried2 EXCEPT !.salary = sc[1]], Staff(4), Staff(5)>>
         /\ \E oh \in NetOffsets, os \in {0, 2} :
              payroll_entries =
                  << PayrollEntry(1, Period1.id, hc[2], hc[3], hc[4], oh),
                     PayrollEntry(1, Period2.id, <<100>>, NULL, 0, 0),
                     PayrollEntry(2, Period1.id, NULL, NULL, sc[2], os),
                     PayrollEntry(4, Period1.id, <<100>>, NULL, 10100, 0),
                     PayrollEntry(5, Period1.id, <<100>>, NULL, 10000, 2) >>
    /\ time_entries = <<>>
    /\ system_settings = <<>>
    /\ reconciliation_logs = <<>>
    /\ audit_logs = <<>>
    /\ now = 1
    /\ req = [i \in Reqs |-> Idle]
    /\ createdBy = <<>>

\* A store for the attendance detector: period 1 runs from day 1 to day 14.
\* Employee 1 has attendance on the first and the last day of the period, on
\* the days before and after it, and one record that is not completed;
\* employee 3 is inactive, with attendance that its entry does not record.

\* attendance of employee 1: with and without records that count
HourlyAttendance ==
    { << TimeEntry(1, Period1.start_date, 4000, 200, "completed"),
         TimeEntry(1, Period1.end_date, 4000, 200, "completed"),
         TimeEntry(1, Period1.start_date - 1, 800, 100, "completed"),
         TimeEntry(1, Period1.end_date + 1, 800, 100, "completed"),
         TimeEntry(1, 4, 800, 100, "active") >>,
      << TimeEntry(1, Period1.end_date + 1, 800, 100, "completed"),
         TimeEntry(1, 4, 800, 100, "pending") >> }

\* hours_worked and overtime_hours of the entry of employee 1
HourlyHours ==
    { <<<<8000>>, <<400>>>>, <<<<8025>>, <<375>>>>, <<<<8026>>, <<374>>>>,
      <<NULL, NULL>>, <<<<0>>, <<25>>>>, <<<<26>>, <<0>>>> }

\* attendance of employee 2: none, 0.20 h, 8 h
SalariedAttendance ==
    { <<>>, <<TimeEntry(2, 6, 20, 0, "completed")>>,
      <<TimeEntry(2, 6, 800, 0, "completed")>> }

InitHours ==
    /\ payroll_periods = <<Period1>>
    /\ employees = <<Hourly1, Salaried2, Inactive3>>
    /\ \E hh \in HourlyHours :
         \* the second entry is that of employee 2 or that of the inactive employee
         payroll_entries \in
             { << [EntryA EXCEPT !.hours_worked = hh[1], !.overtime_hours = hh[2]],
                  EntryB >>,
               << [EntryA EXCEPT !.hours_worked = hh[1], !.overtime_hours = hh[2]],
                  [EntryB EXCEPT !.employee_id = Inactive3.id] >> }
    /\ \E ha \in HourlyAttendance, sa \in SalariedAttendance :
         time_entries = ha \o sa \o <<TimeEntry(3, 3, 800, 100, "completed")>>
    /\ system_settings = <<>>
    /\ reconciliation_logs = <<>>
    /\ audit_logs = <<>>
    /\ now = 1
    /\ req = [i \in Reqs |-> Idle]
    /\ createdBy = <<>>

\* A store for the deductions detector: one entry of basic pay 20000.00 and
\* rate settings of every kind (a key absent, set to 0, set to a rate)

\* setting_value of sss_rate, philhealth_rate, pagibig_rate, in 1/10000;
\* NULL: no row has the key
RateCases ==
    {<<s, p, g>> : s \in {NULL, <<0>>, <<500>>}, p \in {NULL, <<0>>}, g \in {NULL, <<250>>}}

SettingRows(key, value) ==
    IF value = NULL THEN <<>> ELSE <<[setting_key |-> key, setting_value |-> value[1]]>>

\* stored sss_deduction and pagibig_deduction of the entry
StoredDeductions ==
    {<<s, g>> : s \in {0, 90000, 90001, 90002, 100000}, g \in {40000, 50000}}

InitRates ==
    /\ payroll_periods = <<Period1>>
    /\ employees = <<Hourly1, Salaried2>>
    /\ \E sd \in StoredDeductions :
         payroll_entries =
             << [EntryA EXCEPT !.basic_pay = 2000000, !.sss_deduction = sd[1],
                               !.philhealth_deduction = 55000,
                               !.pagibig_deduction = sd[2]],
                EntryB >>
    /\ time_entries = <<>>
    /\ \E rc \in RateCases :
         system_settings = SettingRows("sss_rate", rc[1])
                           \o SettingRows("philhealth_rate", rc[2])
                           \o SettingRows("pagibig_rate", rc[3])
    /\ reconciliation_logs = <<>>
    /\ audit_logs = <<>>
    /\ now = 1
    /\ req = [i \in Reqs |-> Idle]
    /\ createdBy = <<>>

Next ==
    \E i \in Reqs :
        \/ StartResolve(i) \/ ResolveUpdate(i) \/ ResolveLog(i)
        \/ StartRun(i) \/ RunLookup(i) \/ RunPayroll(i)
        \/ RunAttendancePeriod(i) \/ RunAttendanceData(i)
        \/ RunDeductionSettings(i) \/ RunDeductionEntries(i)
        \/ RunSave(i) \/ RunLog(i)
        \/ StartResults(i) \/ ResultsLogs(i) \/ ResultsPeriod(i)
        \/ StartDashboard(i) \/ DashboardPeriodSummary(i)
        \/ DashboardDiscrepancyTypes(i) \/ DashboardTopEmployees(i)
        \/ Fail(i)

Spec == Init /\ [][Next]_vars

\* what request i does once received: each of its store calls completes, or
\* fails
Step(i) ==
    \/ Fail(i)
    \/ ResolveUpdate(i) \/ ResolveLog(i)
    \/ RunLookup(i) \/ RunPayroll(i)
    \/ RunAttendancePeriod(i) \/ RunAttendanceData(i)
    \/ RunDeductionSettings(i) \/ RunDeductionEntries(i)
    \/ RunSave(i) \/ RunLog(i)
    \/ ResultsLogs(i) \/ ResultsPeriod(i)
    \/ DashboardPeriodSummary(i)
    \/ DashboardDiscrepancyTypes(i) \/ DashboardTopEmployees(i)

\* every handler, every store call of a received request coming back
SpecLive == Init /\ [][Next]_vars /\ \A i \in Reqs : WF_vars(Step(i))

\* the resolution workflow alone, over the store as earlier runs left it
NextResolve ==
    \E i \in Reqs :
        StartResolve(i) \/ ResolveUpdate(i) \/ ResolveLog(i) \/ Fail(i)

SpecResolve == Init /\ [][NextResolve]_vars

\* the runner alone
NextRun ==
    \E i \in Reqs :
        \/ StartRun(i) \/ RunLookup(i) \/ RunPayroll(i)
        \/ RunAttendancePeriod(i) \/ RunAttendanceData(i)
        \/ RunDeductionSettings(i) \/ RunDeductionEntries(i)
        \/ RunSave(i) \/ RunLog(i)
        \/ Fail(i)

SpecRun == Init /\ [][NextRun]_vars

\* the runner alone, all three detectors finding something
SpecRunAttendance == InitAttendance /\ [][NextRun]_vars

\* runs and reads while payroll rows are imported, a rate is changed and a
\* period is created
NextInputs ==
    \/ \E i \in Reqs :
          \/ StartRun(i) \/ RunLookup(i) \/ RunPayroll(i)
          \/ RunAttendancePeriod(i) \/ RunAttendanceData(i)
          \/ RunDeductionSettings(i) \/ RunDeductionEntries(i)
          \/ RunSave(i) \/ RunLog(i)
          \/ StartResults(i) \/ ResultsLogs(i) \/ ResultsPeriod(i)
          \/ StartDashboard(i) \/ DashboardPeriodSummary(i)
          \/ DashboardDiscrepancyTypes(i) \/ DashboardTopEmployees(i)
          \/ Fail(i)
    \/ ImportPayrollRow
    \/ UpdateSetting
    \/ CreatePayrollPeriod

SpecInputs == InitSettings /\ [][NextInputs]_vars

\* one dashboard request over a store of many employees and periods
NextDashboard ==
    \/ StartDashboard(1) \/ DashboardPeriodSummary(1)
    \/ DashboardDiscrepancyTypes(1) \/ DashboardTopEmployees(1)
    \/ Fail(1)

SpecDashboard == InitDashboard /\ [][NextDashboard]_vars

\* every handler, all three detectors finding something
SpecAttendance == InitAttendance /\ [][Next]_vars

\* one run request
NextOneRun ==
    \/ StartRun(1) \/ RunLookup(1) \/ RunPayroll(1)
    \/ RunAttendancePeriod(1) \/ RunAttendanceData(1)
    \/ RunDeductionSettings(1) \/ RunDeductionEntries(1)
    \/ RunSave(1) \/ RunLog(1)
    \/ Fail(1)

\* one run over attendance of every kind, while a payroll file is imported
NextHours == NextOneRun \/ ImportPayrollRow

SpecHours == InitHours /\ [][NextHours]_vars

\* one run over rate settings of every kind
SpecRates == InitRates /\ [][NextOneRun]_vars

\* one run over the payroll entries of every kind
SpecPayroll == InitPayroll /\ [][NextOneRun]_vars

----------------------------------------------------------------------------
(* Properties *)

IsResolve(i) == req[i].kind = "resolve"
IsRun(i) == req[i].kind = "run"

\* the request came to its end without a store call failing
Completed(i) == req[i].pc = "done" /\ ~req[i].loc.failed

\* number of log rows request i inserted
RowsOf(i) == Cardinality({k \in 1..Len(createdBy) : createdBy[k] = i})

\* request i's UPDATE runs in this step
UpdateStep(i) == IsResolve(i) /\ req[i].pc = "update" /\ req'[i].pc = "log"

\* request i answers in this step, no store call having failed
AnswerStep(i) == req[i].pc = "log" /\ req'[i].pc = "done" /\ ~req'[i].loc.failed

\* C1: once a record's status is resolved or ignored it never changes again.
C1_TerminalStatusIsFinal ==
    [][\A k \in 1..Len(reconciliation_logs) :
          reconciliation_logs[k].status # "pending"
          => reconciliation_logs'[k].status = reconciliation_logs[k].status]_vars

\* C2: a resolve or ignore request whose UPDATE meets a record that is not
\* pending leaves the record as it was, and the request does not succeed.
C2_NonPendingIsRejected ==
    [][\A i \in Reqs :
          /\ (UpdateStep(i)
              /\ StatusOfId(reconciliation_logs, req[i].arg.logId) \in {"resolved", "ignored"})
             => reconciliation_logs'[req[i].arg.logId]
                    = reconciliation_logs[req[i].arg.logId]
          /\ (IsResolve(i) /\ AnswerStep(i)
              /\ req[i].loc.prior \in {"resolved", "ignored"})
             => req'[i].code # 200]_vars

\* the record request i names carries what request i asked for
RowCarries(i) ==
    LET row == reconciliation_logs[req[i].arg.logId]
    IN  /\ row.status = req[i].arg.status
        /\ row.resolved_by = <<req[i].user>>
        /\ row.resolution_notes = <<req[i].arg.resolutionNotes>>

\* i and j asked for a transition of the same record while it was pending, and
\* i's UPDATE was the first to reach it
Raced(i, j) ==
    /\ i # j /\ IsResolve(i) /\ IsResolve(j)
    /\ req[i].arg.logId = req[j].arg.logId
    /\ req[i].loc.seen = "pending" /\ req[j].loc.seen = "pending"
    /\ req[i].loc.prior = "pending"

\* C3: of two resolvers racing for one pending record, the later one does not
\* succeed and the record keeps what the first one wrote.
C3_LoserIsRejected ==
    \A i, j \in Reqs :
        (Raced(i, j) /\ req[j].loc.prior \notin {"unsent", "none"})
        => /\ RowCarries(i)
           /\ Completed(j) => req[j].code # 200

\* C4: a resolve or ignore request whose id matches no record answers NotFound.
C4_UnknownIdIsNotFound ==
    \A i \in Reqs :
        (IsResolve(i) /\ Completed(i) /\ req[i].loc.prior = "none")
        => req[i].code = 404

\* C5: a transition request whose status is not 'resolved' or 'ignored' is
\* answered 400 at once; receiving it changes no table, and it never gets past
\* that answer.
C5_InvalidStatusIsRejected ==
    [][\A i \in Reqs :
          (req'[i].kind = "resolve" /\ req'[i].arg.status \notin {"resolved", "ignored"})
          => /\ req'[i].pc = "done" /\ req'[i].code = 400
             /\ req[i].pc = "idle"
                => UNCHANGED <<inputs, reconciliation_logs, audit_logs, now, createdBy>>
             /\ req[i].pc # "idle" => req'[i] = req[i]]_vars

C5_Witness ==
    \E i \in Reqs :
        /\ IsResolve(i) /\ req[i].arg.status = "pending"
        /\ req[i].pc = "done" /\ req[i].code = 400
        /\ StatusOfId(reconciliation_logs, req[i].arg.logId) = "pending"

\* C6: the UPDATE of a resolve (ignore) request that meets a pending record sets
\* its status to resolved (ignored), the requester as resolver, a timestamp and
\* the note; the record's other columns and every other record stay as they
\* were; and the request answers 200 when no store call fails.
C6_TransitionFromPending ==
    [][\A i \in Reqs :
          /\ (UpdateStep(i)
              /\ StatusOfId(reconciliation_logs, req[i].arg.logId) = "pending")
             => LET old == reconciliation_logs[req[i].arg.logId]
                    new == reconciliation_logs'[req[i].arg.logId]
                IN  /\ new.status = req[i].arg.status
                    /\ new.status \in {"resolved", "ignored"}
                    /\ new.resolved_by = <<req[i].user>>
                    /\ new.resolved_at # NULL
                    /\ new.resolution_notes = <<req[i].arg.resolutionNotes>>
                    /\ new = [old EXCEPT !.status = new.status,
                                         !.resolved_by = new.resolved_by,
                                         !.resolved_at = new.resolved_at,
                                         !.resolution_notes = new.resolution_notes]
                    /\ Len(reconciliation_logs') = Len(reconciliation_logs)
                    /\ \A m \in 1..Len(reconciliation_logs) :
                          m # req[i].arg.logId
                          => reconciliation_logs'[m] = reconciliation_logs[m]
          /\ (IsResolve(i) /\ AnswerStep(i) /\ req[i].loc.prior = "pending")
             => req'[i].code = 200]_vars

C6_Witness ==
    \E i \in Reqs :
        /\ IsResolve(i) /\ Completed(i) /\ req[i].code = 200
        /\ req[i].loc.prior = "pending"
        /\ req[i].arg.status = "ignored"
        /\ Len(reconciliation_logs) >= 2
        /\ RowCarries(i)

\* C7: when a run has ended, the store holds all the records it computed or
\* none of them, and none when it reported a failure.
C7_BatchIsAllOrNothing ==
    \A i \in Reqs :
        (IsRun(i) /\ req[i].pc = "done")
        => /\ RowsOf(i) \in {0, Len(req[i].loc.reconciliationResults)}
           /\ req[i].code # 200 => RowsOf(i) = 0

\* the rows of run i among those a reader of its period gets
VisibleOf(i) ==
    SelectSeq(getReconciliationLogs(reconciliation_logs, req[i].arg.periodId, "undefined"),
              LAMBDA rl : createdBy[rl.id] = i)

\* C8: in every state, also inside the save loop of a run none of whose store
\* calls failed, the records of a period that a reader gets hold, for each run,
\* all of that run's batch or none of it.
C8_NoPartialBatchVisible ==
    \A i \in Reqs :
        (IsRun(i) /\ ~req[i].loc.failed)
        => Len(VisibleOf(i)) \in {0, Len(req[i].loc.reconciliationResults)}

\* C9: a run whose period id matches no payroll period answers 404 whatever
\* its scope, gets to no detector and inserts no record.
C9_UnknownPeriodIsNotFound ==
    \A i \in Reqs :
        (IsRun(i) /\ \A k \in 1..Len(payroll_periods) :
                        payroll_periods[k].id # req[i].arg.periodId)
        => /\ req[i].pc \in {"lookup", "done"}
           /\ req[i].loc.reconciliationResults = <<>>
           /\ RowsOf(i) = 0
           /\ Completed(i) => req[i].code = 404

C9_Witness ==
    \E i \in Reqs :
        /\ IsRun(i) /\ req[i].arg.periodId = 2
        /\ req[i].arg.reconciliationType = "deductions"
        /\ Completed(i) /\ req[i].code = 404
        /\ payroll_entries # <<>>

\* C10: a run whose scope is none of all, payroll, attendance, deductions never
\* reports a successful reconciliation.
C10_UnknownScopeIsRejected ==
    \A i \in Reqs :
        (IsRun(i) /\ req[i].pc = "done"
         /\ req[i].arg.reconciliationType
                \notin {"all", "payroll", "attendance", "deductions"})
        => req[i].code # 200

\* the rows request i inserted, in the order of their ids
RowsBy(i) == SelectSeq(reconciliation_logs, LAMBDA rl : createdBy[rl.id] = i)

\* the columns of a row that come from the run
DataOf(rl) ==
    [payroll_period_id |-> rl.payroll_period_id,
     reconciliation_type |-> rl.reconciliation_type,
     employee_id |-> rl.employee_id,
     discrepancy_type |-> rl.discrepancy_type,
     expected_value |-> rl.expected_value,
     actual_value |-> rl.actual_value,
     variance |-> rl.variance]

CategoryRank(type) ==
    CASE type = "payroll" -> 1 [] type = "attendance" -> 2 [] OTHER -> 3

\* position of a discrepancy's input row in what its detector reads: the
\* employee's place in employees (attendance) or in payroll_entries (the others)
InputRowOf(d) ==
    IF d.type = "attendance"
    THEN CHOOSE k \in 1..Len(employees) : employees[k].id = d.employee_id
    ELSE CHOOSE k \in 1..Len(payroll_entries) :
             payroll_entries[k].employee_id = d.employee_id

\* C11: a run that succeeds returns its records with payroll before attendance
\* before deductions and, within a category, in the order of the detector's
\* input rows; the count it returns is the length of the list; and the rows it
\* inserted are that list, in that order.
C11_ResultOrder ==
    \A i \in Reqs :
        (IsRun(i) /\ Completed(i) /\ req[i].code = 200)
        => LET list == req[i].body.results
               rows == RowsBy(i)
           IN  /\ \A a, b \in 1..Len(list) :
                     a < b => CategoryRank(list[a].type) <= CategoryRank(list[b].type)
               /\ \A a, b \in 1..Len(list) :
                     (a < b /\ list[a].type = list[b].type)
                     => InputRowOf(list[a]) <= InputRowOf(list[b])
               /\ req[i].body.discrepanciesFound = Len(list)
               /\ Len(rows) = Len(list)
               /\ \A k \in 1..Len(list) :
                     /\ DataOf(rows[k]) = LogData(req[i].arg.periodId, list[k])
                     /\ k > 1 => /\ rows[k].id > rows[k-1].id
                                 /\ rows[k].created_at > rows[k-1].created_at

\* a run of scope 'all' has returned records of all three categories, two of
\* them of one category, while another run's rows were inserted between its own
C11_Witness ==
    \E i \in Reqs :
        /\ IsRun(i) /\ Completed(i) /\ req[i].code = 200
        /\ req[i].arg.reconciliationType = "all"
        /\ {req[i].body.results[k].type : k \in 1..Len(req[i].body.results)}
               = {"payroll", "attendance", "deductions"}
        /\ \E a, b \in 1..Len(req[i].body.results) :
              /\ a < b
              /\ req[i].body.results[a].type = req[i].body.results[b].type
              /\ InputRowOf(req[i].body.results[a]) < InputRowOf(req[i].body.results[b])
        /\ \E k \in 2..Len(RowsBy(i)) : RowsBy(i)[k].id > RowsBy(i)[k-1].id + 1

\* C12: every row that enters the store is inserted by a run and is, in the
\* state in which it first appears, pending with no resolver, no resolution
\* time and no resolution note.
C12_NewRecordIsPending ==
    [][\A k \in (Len(reconciliation_logs) + 1)..Len(reconciliation_logs') :
          /\ createdBy'[k] \in Reqs /\ req[createdBy'[k]].kind = "run"
          /\ reconciliation_logs'[k].status = "pending"
          /\ reconciliation_logs'[k].resolved_by = NULL
          /\ reconciliation_logs'[k].resolved_at = NULL
          /\ reconciliation_logs'[k].resolution_notes = NULL]_vars

\* two runs have inserted rows
C12_Witness ==
    \E i, j \in Reqs :
        /\ i # j /\ IsRun(i) /\ IsRun(j)
        /\ RowsOf(i) >= 1 /\ RowsOf(j) >= 1

\* the value the payroll entry records for what a discrepancy row is about
\* (0 hours when the employee has no entry in the period)
RecordedValue(rl) ==
    LET pes == SelectSeq(payroll_entries,
                         LAMBDA pe : /\ pe.employee_id = rl.employee_id
                                     /\ pe.payroll_period_id = rl.payroll_period_id)
        kind == rl.discrepancy_type
    IN  CASE kind = "gross_pay_mismatch" -> pes[1].gross_pay
          [] kind = "net_pay_mismatch" -> pes[1].net_pay
          [] kind = "regular_hours_mismatch" ->
                 IF pes = <<>> THEN 0 ELSE Or0(pes[1].hours_worked)
          [] kind = "overtime_hours_mismatch" ->
                 IF pes = <<>> THEN 0 ELSE Or0(pes[1].overtime_hours)
          [] kind = "sss_deduction_mismatch" -> pes[1].sss_deduction
          [] kind = "philhealth_deduction_mismatch" -> pes[1].philhealth_deduction
          [] kind = "pagibig_deduction_mismatch" -> pes[1].pagibig_deduction

\* C13: in every state every row of reconciliation_logs, of whatever category
\* and whatever its status, has variance = actual_value - expected_value, its
\* actual_value being the value the payroll entry records; so the variance is
\* positive exactly when the recorded value exceeds the expected one.
C13_VarianceIsActualMinusExpected ==
    \A k \in 1..Len(reconciliation_logs) :
        LET rl == reconciliation_logs[k]
            a == rl.actual_value
            e == rl.expected_value
            diff == a[1] * e[2] - e[1] * a[2]
        IN  /\ Reduce(rl.variance) = Reduce(<<diff, a[2] * e[2]>>)
            /\ a = <<RecordedValue(rl), 1>>
            /\ rl.variance[1] > 0 <=> LessFrac(e, a)
            /\ rl.variance[1] # 0

\* rows of all three categories, of both signs, one of them resolved by a request
C13_Witness ==
    /\ {reconciliation_logs[k].reconciliation_type : k \in 1..Len(reconciliation_logs)}
           = {"payroll", "attendance", "deductions"}
    /\ \E k \in 1..Len(reconciliation_logs) : reconciliation_logs[k].variance[1] > 0
    /\ \E k \in 1..Len(reconciliation_logs) : reconciliation_logs[k].variance[1] < 0
    /\ \E i \in Reqs :
          /\ IsResolve(i) /\ Completed(i) /\ req[i].loc.prior = "pending"
          /\ RowCarries(i)

\* C14: no step of any handler removes a row of reconciliation_logs or changes
\* its id, period, category, employee, kind, expected value, actual value,
\* variance or creation time; a step that inserts a row leaves every earlier row
\* as it was, status and resolution columns included; and a run that has
\* succeeded has all of its rows in the store next to those of earlier runs.
C14_AppendOnly ==
    [][/\ Len(reconciliation_logs') >= Len(reconciliation_logs)
       /\ \A k \in 1..Len(reconciliation_logs) :
             /\ DataOf(reconciliation_logs'[k]) = DataOf(reconciliation_logs[k])
             /\ reconciliation_logs'[k].id = reconciliation_logs[k].id
             /\ reconciliation_logs'[k].created_at = reconciliation_logs[k].created_at
             /\ Len(reconciliation_logs') > Len(reconciliation_logs)
                => reconciliation_logs'[k] = reconciliation_logs[k]
       /\ \A i \in Reqs :
             (req'[i].kind = "run" /\ req'[i].pc = "done" /\ req'[i].code = 200)
             => Cardinality({k \in 1..Len(reconciliation_logs') : createdBy'[k] = i})
                    = Len(req'[i].body.results)
       /\ Len(createdBy') = Len(reconciliation_logs')]_vars

\* over the batch of an earlier run, one row of which a request has resolved, a
\* later run of the same period has succeeded: the store holds both batches,
\* equal in content, and the resolved row is as the resolver left it
C14_Witness ==
    \E i, j \in Reqs :
        /\ IsResolve(i) /\ Completed(i) /\ req[i].loc.prior = "pending" /\ RowCarries(i)
        /\ IsRun(j) /\ Completed(j) /\ req[j].code = 200
        /\ req[j].arg.reconciliationType = "all"
        /\ Len(req[j].body.results) >= 3
        /\ Len(reconciliation_logs) = 2 * Len(req[j].body.results)
        /\ \A k \in 1..Len(req[j].body.results) :
              /\ createdBy[k] = 0
              /\ createdBy[k + Len(req[j].body.results)] = j
              /\ DataOf(reconciliation_logs[k])
                     = DataOf(reconciliation_logs[k + Len(req[j].body.results)])
        /\ reconciliation_logs[req[i].arg.logId].resolved_at[1]
               < reconciliation_logs[Len(req[j].body.results) + 1].created_at

\* C15: a step of a run, whatever its scope and whether it goes on, answers or
\* fails, leaves payroll_periods, employees, payroll_entries, time_entries and
\* system_settings as they were; a step of a results or dashboard request
\* leaves, besides, reconciliation_logs and audit_logs as they were.
C15_EngineReadsOnly ==
    [][\A i \in Reqs :
          req'[i] # req[i]
          => /\ UNCHANGED inputs
             /\ req'[i].kind \in {"results", "dashboard"}
                => UNCHANGED <<reconciliation_logs, audit_logs, createdBy>>]_vars

\* a run has succeeded across an import that changed what its detectors read,
\* and a read has answered; the tables hold the import and nothing else new
C15_Witness ==
    \E i, j \in Reqs :
        /\ IsRun(i) /\ Completed(i) /\ req[i].code = 200
        /\ req[i].loc.payrollRead # req[i].loc.deductionsRead
        /\ req[i].loc.deductionsRead # <<>>
        /\ req[j].kind \in {"results", "dashboard"} /\ Completed(j) /\ req[j].code = 200
        /\ payroll_entries = <<EntryA, EntryB, ImportedEntry(ImportFile[1])>>

\* C16: the payroll detector and the deductions detector of one run of scope
\* 'all' read the same payroll entries, and the period its attendance detector
\* reads is the period its first lookup found.
C16_OneSnapshot ==
    \A i \in Reqs :
        (IsRun(i) /\ req[i].arg.reconciliationType = "all")
        => /\ (req[i].loc.payrollRead # <<>> /\ req[i].loc.deductionsRead # <<>>)
              => req[i].loc.payrollRead = req[i].loc.deductionsRead
           /\ req[i].loc.period # <<>>
              => /\ req[i].loc.found # <<>>
                 /\ req[i].loc.period[1].start_date = req[i].loc.found[1].start_date
                 /\ req[i].loc.period[1].end_date = req[i].loc.found[1].end_date

\* C17: a results request for a period id that matches no payroll period
\* answers 404; it does not answer 200 with an empty summary.
C17_ResultsUnknownPeriodIsNotFound ==
    \A i \in Reqs :
        (req[i].kind = "results" /\ Completed(i)
         /\ \A k \in 1..Len(payroll_periods) :
                payroll_periods[k].id # req[i].arg.periodId)
        => req[i].code = 404

\* the pending rows of employee e in the periods of the window
PendingInWindow(e, days, midnight) ==
    SelectSeq(reconciliation_logs,
              LAMBDA rl : /\ rl.employee_id = e /\ rl.status = "pending"
                          /\ \E k \in 1..Len(payroll_periods) :
                                /\ payroll_periods[k].id = rl.payroll_period_id
                                /\ InWindow(payroll_periods[k].start_date, days, midnight))

\* (count, sum) of x ranks strictly above that of y
Outranks(cx, vx, cy, vy) == cx > cy \/ (cx = cy /\ LessFrac(vy, vx))

\* C18: the top employees a dashboard request answers with are employees with
\* at least one pending row in a period of the window, each once, with the
\* number and the summed absolute variance of those pending rows; at most ten;
\* in descending order of the number and, for equal numbers, of the sum; and
\* no employee left out outranks one that is listed (none is left out when
\* fewer than ten are listed).
C18_TopOffenders ==
    [][\A i \in Reqs :
          (req[i].kind = "dashboard" /\ req[i].pc = "topEmployees"
           /\ req'[i].pc = "done" /\ req'[i].code = 200)
          => \E midnight \in BOOLEAN :
               LET top == req'[i].body.topEmployees
                   days == req[i].arg.dateRange
                   of(e) == PendingInWindow(e, days, midnight)
                   listed == {top[k].employee_id : k \in 1..Len(top)}
                   others == {employees[k].id : k \in 1..Len(employees)} \ listed
               IN  /\ Len(top) <= 10
                   /\ Cardinality(listed) = Len(top)
                   /\ \A k \in 1..Len(top) :
                         /\ of(top[k].employee_id) # <<>>
                         /\ top[k].discrepancy_count = Len(of(top[k].employee_id))
                         /\ top[k].total_variance = SumAbs(of(top[k].employee_id))
                   /\ \A k, m \in 1..Len(top) :
                         k < m => ~Outranks(top[m].discrepancy_count, top[m].total_variance,
                                            top[k].discrepancy_count, top[k].total_variance)
                   /\ \A e \in others :
                         of(e) # <<>>
                         => /\ Len(top) = 10
                            /\ \A k \in 1..Len(top) :
                                  ~Outranks(Len(of(e)), SumAbs(of(e)),
                                            top[k].discrepancy_count,
                                            top[k].total_variance)]_vars

\* a dashboard has answered ten employees, two of them with equal numbers and
\* different sums, over a store in which more than ten employees have pending
\* rows in the window and others only resolved rows or rows of an old period
C18_Witness ==
    \E i \in Reqs :
        /\ req[i].kind = "dashboard" /\ Completed(i) /\ req[i].code = 200
        /\ Len(req[i].body.topEmployees) = 10
        /\ Cardinality({e \in 1..StaffSize :
                           PendingInWindow(e, req[i].arg.dateRange, FALSE) # <<>>}) > 10
        /\ \E k \in 1..9 :
              /\ req[i].body.topEmployees[k].discrepancy_count
                     = req[i].body.topEmployees[k + 1].discrepancy_count
              /\ LessFrac(req[i].body.topEmployees[k + 1].total_variance,
                          req[i].body.topEmployees[k].total_variance)
        /\ \E e \in 1..StaffSize :
              /\ PendingInWindow(e, req[i].arg.dateRange, TRUE) = <<>>
              /\ \E k, m \in 1..Len(reconciliation_logs) :
                    /\ reconciliation_logs[k].employee_id = e
                    /\ reconciliation_logs[k].status = "pending"
                    /\ reconciliation_logs[m].employee_id = e
                    /\ reconciliation_logs[m].status = "resolved"

\* the rows of a period the summary is to count: all of them or, with a
\* department, those of the department's employees
CountedRows(periodId, department) ==
    SelectSeq(reconciliation_logs,
              LAMBDA rl : /\ rl.payroll_period_id = periodId
                          /\ department # "undefined" => InDepartment(rl, department))

\* C19: the period summary a dashboard request reads has exactly one row for
\* every period whose start date is in the window, with or without a
\* department and whether or not the period has a discrepancy to count, and no
\* row for a period before the window; a row's total, pending and resolved
\* numbers and its summed absolute variance are those of the period's rows,
\* of the department's employees when a department is given (total 0 when
\* there is none).
C19_PeriodSummaryComplete ==
    [][\A i \in Reqs :
          (req[i].kind = "dashboard" /\ req[i].pc = "periodSummary"
           /\ req'[i].pc = "discrepancyTypes")
          => \E midnight \in BOOLEAN :
               LET rows == req'[i].loc.periodSummary
                   days == req[i].arg.dateRange
                   department == req[i].arg.department
               IN  /\ \A k \in 1..Len(payroll_periods) :
                         Cardinality({r \in 1..Len(rows) :
                                         rows[r].period_id = payroll_periods[k].id})
                             = IF InWindow(payroll_periods[k].start_date, days, midnight)
                               THEN 1 ELSE 0
                   /\ \A r \in 1..Len(rows) :
                         LET counted == CountedRows(rows[r].period_id, department)
                         IN  /\ rows[r].total_discrepancies = Len(counted)
                             /\ rows[r].pending_discrepancies
                                    = CountStatus(counted, "pending")
                             /\ rows[r].resolved_discrepancies
                                    = CountStatus(counted, "resolved")
                             /\ Or0(rows[r].total_variance) = Or0(SumAbsOrNull(counted))]_vars

Outcomes(kind) ==
    CASE kind = "run" -> {200, 404, 500}
      [] kind = "resolve" -> {200, 400, 500}
      [] OTHER -> {200, 500}

\* C20: every request that has been received is answered, with one of the
\* outcomes of its handler (a run: 200 with the count of its list, 404 or 500),
\* and once answered it is never answered again.
C20_EveryRequestIsAnswered ==
    /\ \A i \in Reqs : (req[i].pc # "idle") ~> (req[i].pc = "done")
    /\ [][\A i \in Reqs :
             /\ req[i].pc = "done" => req'[i] = req[i]
             /\ req'[i].pc = "done"
                => /\ req'[i].code \in Outcomes(req'[i].kind)
                   /\ (req'[i].kind = "run" /\ req'[i].code = 200)
                      => req'[i].body.discrepanciesFound = Len(req'[i].body.results)]_vars

\* every request has been answered: a run that saved a batch, and a request
\* one of whose store calls failed
C20_Witness ==
    /\ \A i \in Reqs : req[i].pc = "done"
    /\ \E i \in Reqs : IsRun(i) /\ req[i].code = 200 /\ RowsOf(i) >= 3
    /\ \E i \in Reqs : req[i].code = 500

\* the employee a payroll entry is about
EmployeeById(id) == CHOOSE e \in {employees[k] : k \in 1..Len(employees)} : e.id = id

\* the records of one kind about one employee in a list of discrepancies
FoundFor(list, kind, employee_id) ==
    SelectSeq(list, LAMBDA d : d.discrepancy_type = kind /\ d.employee_id = employee_id)

\* a run that answered 200 and whose scope selects the category
Ran(i, category) ==
    /\ IsRun(i) /\ Completed(i) /\ req[i].code = 200
    /\ Selected(req[i].arg.reconciliationType, category)

\* the gross pay due for an entry, n/d cents: salary / 26, or hours x rate +
\* overtime x rate x 1.5 (hours in hundredths, a missing value is 0)
GrossDue(pe) ==
    LET e == EmployeeById(pe.employee_id)
    IN  IF e.pay_type = "salary" THEN <<Or0(e.salary), 26>>
        ELSE <<2 * Or0(pe.hours_worked) * Or0(e.hourly_rate)
               + 3 * Or0(pe.overtime_hours) * Or0(e.hourly_rate), 200>>

PlaceOf(list, kind, employee_id) ==
    LET at == {n \in 1..Len(list) : /\ list[n].discrepancy_type = kind
                                    /\ list[n].employee_id = employee_id}
    IN  IF at = {} THEN 0 ELSE CHOOSE n \in at : \A m \in at : n <= m

AttendanceStep(i) ==
    IsRun(i) /\ req[i].pc = "attData" /\ req'[i].pc \notin {"attData", "done"}

\* the discrepancies that step adds to the list of the run
AddedBy(i) ==
    SubSeq(req'[i].loc.reconciliationResults,
           Len(req[i].loc.reconciliationResults) + 1,
           Len(req'[i].loc.reconciliationResults))

\* the attendance records of an employee that count for a period: completed,
\* dated from its start date to its end date
EligibleOf(e, period) ==
    SelectSeq(time_entries,
              LAMBDA t : /\ t.employee_id = e.id /\ t.status = "completed"
                         /\ period.start_date <= t.date /\ t.date <= period.end_date)

RegularSum(e, period) ==
    LET te == EligibleOf(e, period)
    IN  SumSeq([k \in 1..Len(te) |-> te[k].regular_hours])

OvertimeSum(e, period) ==
    LET te == EligibleOf(e, period)
    IN  SumSeq([k \in 1..Len(te) |-> te[k].overtime_hours])

\* the payroll entries of an employee for a period
EntriesFor(e, periodId) ==
    SelectSeq(payroll_entries,
              LAMBDA pe : pe.employee_id = e.id /\ pe.payroll_period_id = periodId)

\* C23: the attendance check of a run adds, for every active employee, one
\* regular_hours_mismatch exactly when the sum of the regular hours of the
\* employee's eligible attendance records differs from the hours of its payroll
\* entry by more than 0.25 h, and one overtime_hours_mismatch likewise (no
\* entry, no record and a missing value count as 0); for an inactive employee
\* it adds nothing.
C23_AttendanceMismatch ==
    [][\A i \in Reqs :
          AttendanceStep(i)
          => LET new == AddedBy(i)
                 period == req[i].loc.period[1]
             IN  \A k \in 1..Len(employees) :
                     LET e == employees[k]
                         pes == EntriesFor(e, req[i].arg.periodId)
                         hours == IF pes = <<>> THEN 0 ELSE Or0(pes[1].hours_worked)
                         overtime == IF pes = <<>> THEN 0 ELSE Or0(pes[1].overtime_hours)
                     IN  IF e.is_active
                         THEN /\ Len(FoundFor(new, "regular_hours_mismatch", e.id))
                                    = IF Abs(RegularSum(e, period) - hours) > 25
                                      THEN 1 ELSE 0
                              /\ Len(FoundFor(new, "overtime_hours_mismatch", e.id))
                                    = IF Abs(OvertimeSum(e, period) - overtime) > 25
                                      THEN 1 ELSE 0
                         ELSE \A n \in 1..Len(new) : new[n].employee_id # e.id]_vars

\* C24: the total an attendance record reports as compared (its expected
\* value) is the sum over the employee's eligible attendance records, each
\* counted once, however many payroll entries the employee has for the period.
C24_TotalsCountEachRecordOnce ==
    [][\A i \in Reqs :
          AttendanceStep(i)
          => LET new == AddedBy(i)
                 period == req[i].loc.period[1]
             IN  \A n \in 1..Len(new) :
                     LET e == EmployeeById(new[n].employee_id)
                     IN  new[n].expected_value
                             = <<IF new[n].discrepancy_type = "regular_hours_mismatch"
                                 THEN RegularSum(e, period)
                                 ELSE OvertimeSum(e, period), 1>>]_vars

\* the rate a key stands for, in 1/10000: the value of its row, whatever it
\* is, and the documented constant when no row has the key
ConfiguredRate(key, dflt) ==
    LET rows == SelectSeq(system_settings, LAMBDA st : st.setting_key = key)
    IN  IF rows = <<>> THEN dflt ELSE rows[Len(rows)].setting_value

\* kind, stored deduction and rate of each of the three checks of an entry
DeductionKinds(pe) ==
    << <<"sss_deduction_mismatch", pe.sss_deduction,
         ConfiguredRate("sss_rate", 450)>>,
       <<"philhealth_deduction_mismatch", pe.philhealth_deduction,
         ConfiguredRate("philhealth_rate", 275)>>,
       <<"pagibig_deduction_mismatch", pe.pagibig_deduction,
         ConfiguredRate("pagibig_rate", 200)>> >>

\* C25: a run whose scope selects deductions returns, for every payroll entry
\* of its period and each of SSS, PhilHealth and Pag-IBIG, one mismatch record
\* exactly when the stored deduction differs by more than one cent from basic
\* pay times the rate of the key (the configured value whenever the key is
\* present, 0 included; 0.045, 0.0275, 0.02 only when it is absent), each of the
\* three independently of the other two.
C25_DeductionMismatch ==
    \A i \in Reqs :
        Ran(i, "deductions")
        => LET list == req[i].body.results IN
           \A k \in 1..Len(payroll_entries) :
               LET pe == payroll_entries[k]
                   checks == DeductionKinds(pe)
               IN  pe.payroll_period_id = req[i].arg.periodId
                   => \A c \in 1..3 :
                         LET found == FoundFor(list, checks[c][1], pe.employee_id)
                             stored == checks[c][2]
                             due == pe.basic_pay * checks[c][3]
                         IN  IF Abs(stored * 10000 - due) > 10000
                             THEN /\ Len(found) = 1
                                  /\ found[1].type = "deductions"
                                  /\ Reduce(found[1].expected_value) = Reduce(<<due, 10000>>)
                                  /\ found[1].actual_value = <<stored, 1>>
                             ELSE found = <<>>

\* two batches agree position by position in what the run computed and share
\* no row
SameFindings(a, b) ==
    /\ Len(a) = Len(b)
    /\ \A k \in 1..Len(a) : DataOf(a[k]) = DataOf(b[k])
    /\ {a[k].id : k \in 1..Len(a)} \cap {b[k].id : k \in 1..Len(b)} = {}
    /\ Cardinality({a[k].id : k \in 1..Len(a)}) = Len(a)
    /\ Cardinality({b[k].id : k \in 1..Len(b)}) = Len(b)

C27_ResolverIffTerminal ==
    \A k \in 1..Len(reconciliation_logs) :
        LET rl == reconciliation_logs[k] IN
        /\ rl.status \in {"pending", "resolved", "ignored"}
        /\ rl.resolved_by # NULL <=> rl.status \in {"resolved", "ignored"}
        /\ rl.resolved_at # NULL <=> rl.status \in {"resolved", "ignored"}

\* the store holds a row resolved by one request, a row ignored by another
\* and a row that is still pending
C27_Witness ==
    /\ \E i, j \in Reqs :
          /\ i # j /\ IsResolve(i) /\ IsResolve(j) /\ Completed(i) /\ Completed(j)
          /\ req[i].arg.logId # req[j].arg.logId
          /\ StatusOfId(reconciliation_logs, req[i].arg.logId) = "resolved"
          /\ StatusOfId(reconciliation_logs, req[j].arg.logId) = "ignored"
    /\ \E k \in 1..Len(reconciliation_logs) : reconciliation_logs[k].status = "pending"

\* the rows of the store a results request asks for: those of its period that
\* have the status and the category it names, when it names one
AskedFor(arg) ==
    SelectSeq(reconciliation_logs,
              LAMBDA rl : /\ rl.payroll_period_id = arg.periodId
                          /\ arg.status # "undefined" => rl.status = arg.status
                          /\ arg.type # "undefined" => rl.reconciliation_type = arg.type)

\* the total a map denominator -> sum of numerators stands for
RECURSIVE TotalOf(_)
TotalOf(byDenominator) ==
    IF DOMAIN byDenominator = {} THEN <<0, 1>>
    ELSE LET d == CHOOSE x \in DOMAIN byDenominator : TRUE
             rest == [x \in DOMAIN byDenominator \ {d} |-> byDenominator[x]]
         IN  AddFrac(<<byDenominator[d], d>>, TotalOf(rest))

\* C28: the step in which a results request gets its rows leaves it with
\* groups that hold exactly the rows of its period matching its status and
\* category filters, each row once and in the group of its own category, no
\* group empty; with summary.total the number of those rows and the sum of
\* pending, resolved and ignored, and summary.totalVariance the sum of their
\* absolute variances; and the request answers with that summary and those
\* groups.
C28_ResultsMatchFilters ==
    [][\A i \in Reqs :
          /\ (req[i].kind = "results" /\ req[i].pc = "logs" /\ req'[i].pc = "period")
             => LET asked == AskedFor(req[i].arg)
                    groups == req'[i].loc.groupedResults
                    summary == req'[i].loc.summary
                IN  /\ \A t \in DOMAIN groups :
                          /\ groups[t] # <<>>
                          /\ \A n \in 1..Len(groups[t]) :
                                /\ groups[t][n].reconciliation_type = t
                                /\ \E k \in 1..Len(asked) : asked[k] = groups[t][n]
                                /\ \A m \in 1..Len(groups[t]) :
                                      groups[t][m].id = groups[t][n].id => m = n
                    /\ \A k \in 1..Len(asked) :
                          /\ asked[k].reconciliation_type \in DOMAIN groups
                          /\ \E n \in 1..Len(groups[asked[k].reconciliation_type]) :
                                groups[asked[k].reconciliation_type][n] = asked[k]
                    /\ summary.total = Len(asked)
                    /\ summary.total = summary.pending + summary.resolved + summary.ignored
                    /\ summary.pending = CountStatus(asked, "pending")
                    /\ TotalOf(summary.totalVariance) = SumAbs(asked)
          /\ (req[i].kind = "results" /\ req[i].pc = "period" /\ req'[i].code = 200)
             => /\ req'[i].body.summary = req[i].loc.summary
                /\ req'[i].body.results = req[i].loc.groupedResults]_vars

\* a request for the payroll rows of period 1 has been answered with a pending
\* and a resolved or ignored row, the store holding rows of another category
\* of that period
C28_Witness ==
    \E i \in Reqs :
        /\ req[i].kind = "results" /\ Completed(i) /\ req[i].code = 200
        /\ req[i].arg.type = "payroll" /\ req[i].arg.status = "undefined"
        /\ req[i].body.summary.pending >= 1
        /\ req[i].body.summary.resolved + req[i].body.summary.ignored >= 1
        /\ DOMAIN req[i].body.results = {"payroll"}
        /\ \E k \in 1..Len(reconciliation_logs) :
              /\ reconciliation_logs[k].payroll_period_id = req[i].arg.periodId
              /\ reconciliation_logs[k].reconciliation_type # "payroll"

====
